---------------------------- MODULE Spec2Model ----------------------------
(***************************************************************************)
(* A model of the cogniweave backend: the transformation service           *)
(* (transformText, analyzeVisuals, transformPage and the text stages       *)
(* called on their own), the generative text simplification service with   *)
(* its local fallback, the profile generation service with its keyword     *)
(* fallback with its batch entry point, and the profile store behind the   *)
(* profile, onboarding and transform endpoints.                            *)
(*                                                                         *)
(* The services hold no state between calls, so the state of the model is  *)
(* the state of one call: its arguments, its local variables, the place it *)
(* has reached (pc) and what it returned or threw (result).  Each entry    *)
(* point has its own specification (SpecVisuals, SpecTransform, ...),     *)
(* whose initial states draw the arguments from bounded sets.  The table   *)
(* of the profile store outlives a call: SpecStore runs a sequence of      *)
(* requests of one user against it.                                        *)
(*                                                                         *)
(* JavaScript values are modelled as follows.  An object is a record whose *)
(* DOMAIN is the set of its own keys, so a missing field is a missing key; *)
(* reading a field of a missing object throws a TypeError, which the model *)
(* writes as the value Thrown("TypeError").  A string the code only        *)
(* compares for equality is a TLA+ string; a string the code searches or   *)
(* rewrites is a sequence of one-character strings.                        *)
(***************************************************************************)
EXTENDS Integers, Sequences, FiniteSets, TLC

VARIABLES
    pc,                 \* the place the call in progress has reached
    profile,            \* the cognitive profile argument
    result,             \* what the call returned or threw; NoResult before
    elements,           \* analyzeVisuals: the elements argument
    content,            \* transformText: the content argument
    transformedContent, \* transformText: the working content
    transformationLog,  \* transformText: the log so far
    caller,             \* transformText: "transformPage" when called from there
    htmlContent,        \* transformPage: the htmlContent argument
    document,           \* transformPage: the children of the parsed body
    textNodes,          \* transformPage: the indexes in document of the text nodes
    nodeIndex,          \* transformPage: the place of the forEach in textNodes
    textTransformations,\* transformPage: the counter of line 675
    sendOutcome,        \* what bedrockClient.send does in this call
    modelText,          \* the text the model wrote, when send resolves
    moduleScope,        \* the module system the service file is loaded under
    entry,              \* the entry point or handler that was called
    http,               \* the response the controller wrote; NoResult before
    answers,            \* generateCognitiveProfile: the onboarding answers
    stage,              \* the text stage called on its own
    levelArg,           \* simplifyVocabulary: the level argument
    maxSentencesArg,    \* chunkParagraphs: the maxSentences argument
    paragraphs,         \* chunkParagraphs: the children of body, each with its html
    paragraphIndex,     \* chunkParagraphs: the place of the forEach of line 511
    sentenceIndex,      \* chunkParagraphs: i of the loop of line 519
    chunks,             \* chunkParagraphs: the chunks array of line 518
    chunksCreated,      \* chunkParagraphs: the counter of line 509
    userId,             \* the user id of the request (req.user.id)
    table,              \* the items of the user-profiles table, by userId
    storeOutcome,       \* what docClient.send does in this request
    requests,           \* the number of requests the user has sent
    textSegments,       \* simplifyTextBatch: the segments, each with what
                        \* bedrockClient.send does for it
    calls,              \* simplifyTextBatch: the calls of simplifyText, by segment
    batch,              \* simplifyTextBatch: the group the loop of line 194 is at
    results             \* simplifyTextBatch: the results array of line 181

visualVars == <<elements>>

textVars == <<content, transformedContent, transformationLog, caller>>

pageVars == <<htmlContent, document, textNodes, nodeIndex, textTransformations>>

modelVars == <<sendOutcome, modelText>>

simplifyVars == <<moduleScope, entry, http>>

genVars == <<answers>>

stageVars == <<stage, levelArg, maxSentencesArg, paragraphs, paragraphIndex,
               sentenceIndex, chunks, chunksCreated>>

storeVars == <<userId, table, storeOutcome, requests>>

batchVars == <<textSegments, calls, batch, results>>

vars == <<pc, profile, result, visualVars, textVars, pageVars, modelVars,
          simplifyVars, genVars, stageVars, storeVars, batchVars>>

----------------------------------------------------------------------------
(* Values shared by all entry points *)

\* No value yet: the call has not returned.
NoResult == [pending |-> TRUE]

\* An exception leaving a function.
Thrown(name) == [threw |-> name]

IsThrown(v) == "threw" \in DOMAIN v

\* A returned result object carrying a status tag.
IsTagged(v) == "status" \in DOMAIN v /\ v.status \in {"success", "error"}

Has(obj, key) == key \in DOMAIN obj

\* The variables of the entry points that are not running: every group of
\* variables but those in running.
IdleExcept(running) ==
    /\ IF "visuals" \in running THEN TRUE ELSE elements = <<>>
    /\ IF "text" \in running THEN TRUE
       ELSE /\ content = <<>> /\ transformedContent = <<>>
            /\ transformationLog = <<>> /\ caller = "none"
    /\ IF "page" \in running THEN TRUE
       ELSE /\ htmlContent = <<>> /\ document = <<>> /\ textNodes = <<>>
            /\ nodeIndex = 0 /\ textTransformations = 0
    /\ IF "model" \in running THEN TRUE
       ELSE sendOutcome = "none" /\ modelText = <<>>
    /\ IF "simplify" \in running THEN TRUE
       ELSE moduleScope = "none" /\ entry = "none" /\ http = NoResult
    /\ IF "gen" \in running THEN TRUE ELSE answers = <<>>
    /\ IF "stage" \in running THEN TRUE
       ELSE /\ stage = "none" /\ levelArg = "none" /\ maxSentencesArg = 0
            /\ paragraphs = <<>> /\ paragraphIndex = 0 /\ sentenceIndex = 0
            /\ chunks = <<>> /\ chunksCreated = 0
    /\ IF "store" \in running THEN TRUE
       ELSE /\ userId = "none" /\ table = <<>> /\ storeOutcome = "none"
            /\ requests = 0
    /\ IF "batch" \in running THEN TRUE
       ELSE textSegments = <<>> /\ calls = <<>> /\ batch = 0 /\ results = <<>>

----------------------------------------------------------------------------
(* Bounds of the model *)

\* The longest elements array handed to analyzeVisuals.
MaxElements == 2

\* The most sentences in a text handed to transformText, and the largest
\* text.chunking.maxLength of a profile.
MaxSentences == 2

----------------------------------------------------------------------------
(* Strings the code searches or rewrites: sequences of one-character       *)
(* strings.  The light-bulb emoji of the analogy marker is the one         *)
(* element "bulb".                                                         *)

\* The upper-case letters, each with its lower-case letter.
LowerOfUpper ==
    LET lower == <<"a","b","c","d","e","f","g","h","i","j","k","l","m",
                   "n","o","p","q","r","s","t","u","v","w","x","y","z">>
        upper == <<"A","B","C","D","E","F","G","H","I","J","K","L","M",
                   "N","O","P","Q","R","S","T","U","V","W","X","Y","Z">>
    IN [c \in {upper[i] : i \in DOMAIN upper} |->
            lower[CHOOSE i \in DOMAIN upper : upper[i] = c]]

LowerChar(c) == IF c \in DOMAIN LowerOfUpper THEN LowerOfUpper[c] ELSE c

toLowerCase(s) == [i \in 1..Len(s) |-> LowerChar(s[i])]

\* The regular expression class \w: letters, digits and the underscore.
IsWordChar(c) ==
    \/ c \in DOMAIN LowerOfUpper
    \/ c \in {LowerOfUpper[u] : u \in DOMAIN LowerOfUpper}
    \/ c \in {"0","1","2","3","4","5","6","7","8","9","_"}

\* s has pat at index i (1-based), compared exactly.
StartsWithAt(s, i, pat) ==
    /\ i >= 1
    /\ i + Len(pat) - 1 <= Len(s)
    /\ \A k \in 1..Len(pat) : s[i + k - 1] = pat[k]

\* String.prototype.includes
includes(s, pat) == \E i \in 1..(Len(s) - Len(pat) + 1) : StartsWithAt(s, i, pat)

\* The least index j >= i at which s[j] is in C; Len(s) + 1 when none.
FirstIndexOf(s, i, C) ==
    IF \E j \in i..Len(s) : s[j] \in C
    THEN CHOOSE j \in i..Len(s) :
            s[j] \in C /\ \A k \in i..(j - 1) : s[k] \notin C
    ELSE Len(s) + 1

\* The least index j >= i at which s[j] is outside C; Len(s) + 1 when none.
FirstIndexNotOf(s, i, C) ==
    IF \E j \in i..Len(s) : s[j] \notin C
    THEN CHOOSE j \in i..Len(s) :
            s[j] \notin C /\ \A k \in i..(j - 1) : s[k] \in C
    ELSE Len(s) + 1

\* The least index j >= i at which pat starts; Len(s) + 1 when none.
IndexOfFrom(s, i, pat) ==
    IF \E j \in i..Len(s) : StartsWithAt(s, j, pat)
    THEN CHOOSE j \in i..Len(s) :
            StartsWithAt(s, j, pat) /\ \A k \in i..(j - 1) : ~ StartsWithAt(s, k, pat)
    ELSE Len(s) + 1

\* String.prototype.trim
trim(s) ==
    LET ws == {" ", "\n", "\t"}
        first == FirstIndexNotOf(s, 1, ws)
        last  == IF first > Len(s) THEN 0
                 ELSE CHOOSE j \in first..Len(s) :
                        /\ s[j] \notin ws
                        /\ \A k \in (j + 1)..Len(s) : s[k] \in ws
    IN SubSeq(s, first, last)

\* Array.prototype.join
RECURSIVE join(_, _)
join(parts, sep) ==
    IF Len(parts) = 0 THEN <<>>
    ELSE IF Len(parts) = 1 THEN parts[1]
    ELSE parts[1] \o sep \o join(Tail(parts), sep)

----------------------------------------------------------------------------
(* The regular expression new RegExp(`\\b${key}\\b`, 'gi') of              *)
(* simplifyVocabulary, addAnalogies and fallbackSimplification             *)

\* \b between s[i] and s[i+1] (i = 0 is the start, i = Len(s) the end).
WordBoundaryAfter(s, i) ==
    LET before == i >= 1 /\ i <= Len(s) /\ IsWordChar(s[i])
        after  == i + 1 >= 1 /\ i + 1 <= Len(s) /\ IsWordChar(s[i + 1])
    IN before # after

\* key matches s at index i without the two \b: inside longer words too.
MatchesInsideWords(s, i, key) ==
    /\ i >= 1
    /\ i + Len(key) - 1 <= Len(s)
    /\ \A k \in 1..Len(key) : LowerChar(s[i + k - 1]) = LowerChar(key[k])

\* \bkey\b matches s at index i, letters compared without case.
MatchesAt(s, i, key) ==
    /\ i >= 1
    /\ i + Len(key) - 1 <= Len(s)
    /\ \A k \in 1..Len(key) : LowerChar(s[i + k - 1]) = LowerChar(key[k])
    /\ WordBoundaryAfter(s, i - 1)
    /\ WordBoundaryAfter(s, i + Len(key) - 1)

\* A match can only start where the first letter of key stands.
CanStartAt(s, i, key) == LowerChar(s[i]) = LowerChar(key[1])

\* regex.test(s) on the fresh regex: some match exists.
RegexTest(s, key) ==
    \E i \in 1..Len(s) : CanStartAt(s, i, key) /\ MatchesAt(s, i, key)

\* s.replace(regex, replacement) with the g flag: every match, left to
\* right, matches not overlapping.  No replacement of the code holds a `$`.
RECURSIVE ReplaceFrom(_, _, _, _)
ReplaceFrom(s, i, key, replacement) ==
    IF \E j \in i..Len(s) : CanStartAt(s, j, key) /\ MatchesAt(s, j, key)
    THEN LET starts == {j \in i..Len(s) : CanStartAt(s, j, key) /\ MatchesAt(s, j, key)}
             at == CHOOSE j \in starts : \A k \in starts : j <= k
         IN SubSeq(s, i, at - 1) \o replacement
                \o ReplaceFrom(s, at + Len(key), key, replacement)
    ELSE SubSeq(s, i, Len(s))

----------------------------------------------------------------------------
(* The substitution tables *)

\* A table in which the word one row writes is the word another row looks
\* for.
BasicMappingsCascading ==
    <<[complex |-> <<"u","b","i","q","u","i","t","o","u","s">>, simple |-> <<"f","u","n","d","a","m","e","n","t","a","l">>],
      [complex |-> <<"f","u","n","d","a","m","e","n","t","a","l">>, simple |-> <<"b","a","s","i","c">>],
      [complex |-> <<"c","o","g","n","i","t","i","v","e">>, simple |-> <<"t","h","i","n","k","i","n","g">>]>>

\* vocabularyMappings.basic, in the order Object.entries yields it (sampleData.js 139-164).
BasicMappings ==
    <<
      [complex |->
          <<"u","b","i","q","u","i","t","o","u","s">>,
       simple |->
          <<"e","v","e","r","y","w","h","e","r","e">>],
      [complex |->
          <<"p","r","o","l","i","f","e","r","a","t","i","o","n">>,
       simple |->
          <<"s","p","r","e","a","d">>],
      [complex |->
          <<"p","e","d","a","g","o","g","i","c","a","l">>,
       simple |->
          <<"t","e","a","c","h","i","n","g">>],
      [complex |->
          <<"p","a","r","a","d","i","g","m","s">>,
       simple |->
          <<"m","e","t","h","o","d","s">>],
      [complex |->
          <<"n","e","c","e","s","s","i","t","a","t","i","n","g">>,
       simple |->
          <<"r","e","q","u","i","r","i","n","g">>],
      [complex |->
          <<"m","e","t","h","o","d","o","l","o","g","i","e","s">>,
       simple |->
          <<"w","a","y","s">>],
      [complex |->
          <<"a","c","c","o","m","m","o","d","a","t","e">>,
       simple |->
          <<"f","i","t">>],
      [complex |->
          <<"c","o","g","n","i","t","i","v","e">>,
       simple |->
          <<"t","h","i","n","k","i","n","g">>],
      [complex |->
          <<"f","r","a","m","e","w","o","r","k","s">>,
       simple |->
          <<"s","t","r","u","c","t","u","r","e","s">>],
      [complex |->
          <<"l","e","v","e","r","a","g","e">>,
       simple |->
          <<"u","s","e">>],
      [complex |->
          <<"e","m","e","r","g","e","n","t">>,
       simple |->
          <<"n","e","w">>],
      [complex |->
          <<"e","c","o","s","y","s","t","e","m","s">>,
       simple |->
          <<"s","y","s","t","e","m","s">>],
      [complex |->
          <<"f","u","n","d","a","m","e","n","t","a","l">>,
       simple |->
          <<"b","a","s","i","c">>],
      [complex |->
          <<"s","u","b","a","t","o","m","i","c">>,
       simple |->
          <<"v","e","r","y"," ","t","i","n","y">>],
      [complex |->
          <<"u","n","p","r","e","c","e","d","e","n","t","e","d">>,
       simple |->
          <<"n","e","v","e","r"," ","s","e","e","n"," ","b","e","f","o","r","e">>],
      [complex |->
          <<"e","p","o","c","h">>,
       simple |->
          <<"t","i","m","e"," ","p","e","r","i","o","d">>],
      [complex |->
          <<"e","n","c","a","p","s","u","l","a","t","e","s">>,
       simple |->
          <<"s","h","o","w","s">>],
      [complex |->
          <<"a","n","t","i","q","u","i","t","y">>,
       simple |->
          <<"a","n","c","i","e","n","t"," ","t","i","m","e","s">>],
      [complex |->
          <<"e","p","i","t","o","m","i","z","e","d">>,
       simple |->
          <<"s","h","o","w","e","d"," ","p","e","r","f","e","c","t","l","y">>],
      [complex |->
          <<"i","n","t","r","i","c","a","t","e">>,
       simple |->
          <<"c","o","m","p","l","e","x">>],
      [complex |->
          <<"w","h","e","r","e","b","y">>,
       simple |->
          <<"w","h","e","r","e">>],
      [complex |->
          <<"b","i","o","c","h","e","m","i","c","a","l">>,
       simple |->
          <<"c","h","e","m","i","c","a","l"," ","i","n"," ","l","i","v","i","n","g"," ",
          "t","h","i","n","g","s">>],
      [complex |->
          <<"t","y","p","i","c","a","l","l","y">>,
       simple |->
          <<"u","s","u","a","l","l","y">>],
      [complex |->
          <<"p","h","o","t","o","p","h","o","s","p","h","o","r","y","l","a","t","i","o",
          "n">>,
       simple |->
          <<"l","i","g","h","t","-","p","o","w","e","r","e","d"," ","c","h","e","m","i",
          "c","a","l"," ","p","r","o","c","e","s","s">>]
    >>

\* vocabularyMappings.intermediate (sampleData.js 165-180).
IntermediateMappings ==
    <<
      [complex |->
          <<"u","b","i","q","u","i","t","o","u","s">>,
       simple |->
          <<"w","i","d","e","s","p","r","e","a","d">>],
      [complex |->
          <<"p","r","o","l","i","f","e","r","a","t","i","o","n">>,
       simple |->
          <<"g","r","o","w","t","h">>],
      [complex |->
          <<"p","e","d","a","g","o","g","i","c","a","l">>,
       simple |->
          <<"e","d","u","c","a","t","i","o","n","a","l">>],
      [complex |->
          <<"p","a","r","a","d","i","g","m","s">>,
       simple |->
          <<"a","p","p","r","o","a","c","h","e","s">>],
      [complex |->
          <<"m","e","t","h","o","d","o","l","o","g","i","e","s">>,
       simple |->
          <<"t","e","c","h","n","i","q","u","e","s">>],
      [complex |->
          <<"c","o","g","n","i","t","i","v","e">>,
       simple |->
          <<"m","e","n","t","a","l">>],
      [complex |->
          <<"l","e","v","e","r","a","g","e">>,
       simple |->
          <<"u","t","i","l","i","z","e">>],
      [complex |->
          <<"e","m","e","r","g","e","n","t">>,
       simple |->
          <<"e","m","e","r","g","i","n","g">>],
      [complex |->
          <<"f","u","n","d","a","m","e","n","t","a","l">>,
       simple |->
          <<"e","s","s","e","n","t","i","a","l">>],
      [complex |->
          <<"u","n","p","r","e","c","e","d","e","n","t","e","d">>,
       simple |->
          <<"e","x","t","r","a","o","r","d","i","n","a","r","y">>],
      [complex |->
          <<"e","n","c","a","p","s","u","l","a","t","e","s">>,
       simple |->
          <<"r","e","p","r","e","s","e","n","t","s">>],
      [complex |->
          <<"e","p","i","t","o","m","i","z","e","d">>,
       simple |->
          <<"r","e","p","r","e","s","e","n","t","e","d">>],
      [complex |->
          <<"i","n","t","r","i","c","a","t","e">>,
       simple |->
          <<"d","e","t","a","i","l","e","d">>],
      [complex |->
          <<"b","i","o","c","h","e","m","i","c","a","l">>,
       simple |->
          <<"b","i","o","l","o","g","i","c","a","l"," ","c","h","e","m","i","c","a","l">>]
    >>

\* analogyMap of addAnalogies, in the order Object.entries yields it (part_000 547-553).
analogyMap ==
    <<
      [concept |->
          <<"q","u","a","n","t","u","m"," ","m","e","c","h","a","n","i","c","s">>,
       analogy |->
          <<"T","h","i","n","k"," ","o","f"," ","q","u","a","n","t","u","m"," ","m","e",
          "c","h","a","n","i","c","s"," ","l","i","k","e"," ","a"," ","c","o","i","n"," ",
          "t","h","a","t"," ","s","p","i","n","s"," ","i","n"," ","t","h","e"," ","a","i",
          "r"," ","-"," ","u","n","t","i","l"," ","i","t"," ","l","a","n","d","s",","," ",
          "i","t","'","s"," ","b","o","t","h"," ","h","e","a","d","s"," ","a","n","d"," ",
          "t","a","i","l","s"," ","a","t"," ","t","h","e"," ","s","a","m","e"," ","t","i",
          "m","e",".">>],
      [concept |->
          <<"p","h","o","t","o","s","y","n","t","h","e","s","i","s">>,
       analogy |->
          <<"P","h","o","t","o","s","y","n","t","h","e","s","i","s"," ","i","s"," ","l",
          "i","k","e"," ","a"," ","p","l","a","n","t","'","s"," ","k","i","t","c","h","e",
          "n"," ","w","h","e","r","e"," ","s","u","n","l","i","g","h","t"," ","i","s"," ",
          "t","h","e"," ","e","n","e","r","g","y"," ","s","o","u","r","c","e"," ","t","o",
          " ","c","o","o","k"," ","s","u","g","a","r"," ","f","r","o","m"," ","a","i","r",
          " ","a","n","d"," ","w","a","t","e","r",".">>],
      [concept |->
          <<"R","e","n","a","i","s","s","a","n","c","e">>,
       analogy |->
          <<"T","h","e"," ","R","e","n","a","i","s","s","a","n","c","e"," ","w","a","s",
          " ","l","i","k","e"," ","E","u","r","o","p","e"," ","w","a","k","i","n","g"," ",
          "u","p"," ","f","r","o","m"," ","a"," ","l","o","n","g"," ","s","l","e","e","p",
          " ","a","n","d"," ","r","e","d","i","s","c","o","v","e","r","i","n","g"," ","t",
          "h","e"," ","w","i","s","d","o","m"," ","o","f"," ","a","n","c","i","e","n","t",
          " ","G","r","e","e","c","e"," ","a","n","d"," ","R","o","m","e",".">>],
      [concept |->
          <<"b","i","o","c","h","e","m","i","c","a","l"," ","p","r","o","c","e","s","s">>,
       analogy |->
          <<"A"," ","b","i","o","c","h","e","m","i","c","a","l"," ","p","r","o","c","e",
          "s","s"," ","i","s"," ","l","i","k","e"," ","a"," ","r","e","c","i","p","e"," ",
          "t","h","a","t"," ","l","i","v","i","n","g"," ","t","h","i","n","g","s"," ","f",
          "o","l","l","o","w"," ","t","o"," ","m","a","k","e"," ","t","h","e"," ","c","h",
          "e","m","i","c","a","l","s"," ","t","h","e","y"," ","n","e","e","d",".">>],
      [concept |->
          <<"c","o","g","n","i","t","i","v","e"," ","f","r","a","m","e","w","o","r","k",
          "s">>,
       analogy |->
          <<"C","o","g","n","i","t","i","v","e"," ","f","r","a","m","e","w","o","r","k",
          "s"," ","a","r","e"," ","l","i","k","e"," ","d","i","f","f","e","r","e","n","t",
          " ","c","o","l","o","r","e","d"," ","g","l","a","s","s","e","s"," ","-"," ","e",
          "a","c","h"," ","p","e","r","s","o","n"," ","s","e","e","s"," ","a","n","d"," ",
          "u","n","d","e","r","s","t","a","n","d","s"," ","t","h","e"," ","w","o","r","l",
          "d"," ","t","h","r","o","u","g","h"," ","t","h","e","i","r"," ","o","w","n"," ",
          "u","n","i","q","u","e"," ","l","e","n","s",".">>]
    >>


\* vocabularyMappings[level] with the basic table for a level that has none.
vocabularyMappingsOrBasic(level) ==
    IF level = "intermediate" THEN IntermediateMappings ELSE BasicMappings

\* vocabularyMappings[level] || {} (part_000 line 486): a level without a
\* table, or no level, gives the empty table.  So does a name every object
\* inherits, such as constructor: Object.entries finds no entry in it.
vocabularyMappings(level) ==
    CASE level = "basic" -> BasicMappings
      [] level = "intermediate" -> IntermediateMappings
      [] OTHER -> <<>>

----------------------------------------------------------------------------
(* simplifyVocabulary: part_000 lines 485-501 *)

\* The template literal of line 494.
SimplifiedMarkup(complex, simple) ==
    LET open  == <<"<","s","p","a","n"," ","c","l","a","s","s","=","\"",
                  "s","i","m","p","l","i","f","i","e","d","-","w","o","r","d","\""," ","d","a","t","a","-","o","r","i","g","i","n","a","l","=","\"">>
        title == <<"\""," ","t","i","t","l","e","=","\"","O","r","i","g","i","n","a","l",":"," ">>
        close == <<"<","/","s","p","a","n",">">>
    IN open \o complex \o title \o complex \o <<"\"", ">">> \o simple \o close

\* The forEach of lines 490-498 from table row n on; acc is
\* {content: simplifiedContent, replacements}.
RECURSIVE SimplifyFrom(_, _, _)
SimplifyFrom(mappings, n, acc) ==
    IF n > Len(mappings) THEN acc
    ELSE LET complex == mappings[n].complex
             simple  == mappings[n].simple
         IN IF RegexTest(acc.content, complex)
            THEN SimplifyFrom(mappings, n + 1,
                    [content |-> ReplaceFrom(acc.content, 1, complex,
                                            SimplifiedMarkup(complex, simple)),
                     \* the log line `"${complex}" -> "${simple}"` of line 496
                     replacements |-> Append(acc.replacements,
                         [entry |-> "replacement", complex |-> complex,
                          simple |-> simple])])
            ELSE SimplifyFrom(mappings, n + 1, acc)

simplifyVocabulary(text, level) ==
    SimplifyFrom(vocabularyMappings(level), 1,
                 [content |-> text, replacements |-> <<>>])

----------------------------------------------------------------------------
(* splitIntoSentences and chunkParagraphs: part_000 lines 506-541 *)

Terminators == {".", "!", "?"}

\* text.match(/[^\.!?]+[\.!?]+/g): each maximal run of other characters that
\* is followed by a terminator, with the whole run of terminators after it.
\* Terminators at the start and a last run without a terminator match nothing.
RECURSIVE SentenceMatches(_, _)
SentenceMatches(text, i) ==
    LET start == FirstIndexNotOf(text, i, Terminators)
        stop  == FirstIndexOf(text, start, Terminators)
        next  == FirstIndexNotOf(text, stop, Terminators)
    IN IF start > Len(text) \/ stop > Len(text) THEN <<>>
       ELSE <<SubSeq(text, start, next - 1)>> \o SentenceMatches(text, next)

\* Line 540: the trimmed matches, or [text] when match() gives null.
splitIntoSentences(text) ==
    LET matches == SentenceMatches(text, 1)
    IN IF matches = <<>> THEN <<text>>
       ELSE [k \in 1..Len(matches) |-> trim(matches[k])]

POpen ==
    <<"<","p",">">>

PClose ==
    <<"<","/","p",">">>

\* new JSDOM(content) as far as chunkParagraphs looks: the children of body,
\* each a p element (its start tag and its innerHTML) or a run of other markup
\* and text.  A p start tag ends an open p, the end of input ends an open p,
\* and a stray </p> makes an empty p, as the HTML parser does.  Other tags stay
\* in the text as written (the model's contents hold no block-level tags
\* besides p, no entities and no leading white space).
RECURSIVE ParseBody(_, _)
ParseBody(s, i) ==
    IF i > Len(s) THEN <<>>
    ELSE IF StartsWithAt(s, i, POpen) \/ StartsWithAt(s, i, <<"<","p"," ">>)
    THEN LET tagEnd == FirstIndexOf(s, i, {">"})
             close  == IndexOfFrom(s, tagEnd + 1, PClose)
             reopen == LET a == IndexOfFrom(s, tagEnd + 1, POpen)
                           b == IndexOfFrom(s, tagEnd + 1, <<"<","p"," ">>)
                       IN IF a < b THEN a ELSE b
             stop   == IF close < reopen THEN close ELSE reopen
             after  == IF close < reopen THEN close + Len(PClose) ELSE reopen
         IN <<[tag |-> "p", open |-> SubSeq(s, i, tagEnd),
               inner |-> SubSeq(s, tagEnd + 1, stop - 1)]>>
            \o ParseBody(s, after)
    ELSE IF StartsWithAt(s, i, PClose)
    THEN <<[tag |-> "p", open |-> POpen, inner |-> <<>>]>>
            \o ParseBody(s, i + Len(PClose))
    ELSE LET a == IndexOfFrom(s, i + 1, POpen)
             b == IndexOfFrom(s, i + 1, <<"<","p"," ">>)
             c == IndexOfFrom(s, i + 1, PClose)
             ab == IF a < b THEN a ELSE b
             stop == IF ab < c THEN ab ELSE c
         IN <<[tag |-> "#text", open |-> <<>>, inner |-> SubSeq(s, i, stop - 1)]>>
            \o ParseBody(s, stop)

\* node.textContent: the text with every tag left out.
RECURSIVE textContent(_)
textContent(html) ==
    LET lt == FirstIndexOf(html, 1, {"<"})
        gt == FirstIndexOf(html, lt, {">"})
    IN IF lt > Len(html) THEN html
       ELSE SubSeq(html, 1, lt - 1) \o textContent(SubSeq(html, gt + 1, Len(html)))

\* outerHTML of one child of body.
OuterHTML(node) ==
    IF node.tag = "p" THEN node.open \o node.inner \o PClose ELSE node.inner

\* The template literal of line 521.
ChunkMarkup(chunk) ==
    <<"<","p"," ","c","l","a","s","s","=","\"",
      "c","h","u","n","k","e","d","-","p","a","r","a","g","r","a","p","h","\"",">">>
        \o chunk \o PClose

\* Lines 518-522: the chunks of one paragraph, for maxSentences >= 1.
RECURSIVE ChunksFrom(_, _, _)
ChunksFrom(sentences, i, maxSentences) ==
    IF i > Len(sentences) THEN <<>>
    ELSE LET last == IF i + maxSentences - 1 < Len(sentences)
                     THEN i + maxSentences - 1 ELSE Len(sentences)
         IN <<ChunkMarkup(join(SubSeq(sentences, i, last), <<" ">>))>>
            \o ChunksFrom(sentences, i + maxSentences, maxSentences)

\* Line 516 with >= for >: a paragraph at the limit is split as well.
IsSplitAtLimit(node, maxSentences) ==
    /\ node.tag = "p"
    /\ Len(splitIntoSentences(textContent(node.inner))) >= maxSentences

\* The paragraph is split: line 516.
IsSplit(node, maxSentences) ==
    /\ node.tag = "p"
    /\ Len(splitIntoSentences(textContent(node.inner))) > maxSentences

\* The loop of line 519 adds maxSentences to i: with maxSentences <= 0 it
\* never ends for a paragraph that is split.
ChunkingDiverges(text, maxSentences) ==
    /\ maxSentences <= 0
    /\ LET nodes == ParseBody(text, 1)
       IN \E k \in DOMAIN nodes : IsSplit(nodes[k], maxSentences)

\* chunkParagraphs(content, maxSentences) where it returns.
chunkParagraphs(text, maxSentences) ==
    LET nodes == ParseBody(text, 1)
        html(node) ==
            IF IsSplit(node, maxSentences)
            THEN join(ChunksFrom(splitIntoSentences(textContent(node.inner)),
                                 1, maxSentences), <<"\n">>)
            ELSE OuterHTML(node)
        innerHTML == join([k \in 1..Len(nodes) |-> html(nodes[k])], <<>>)
    IN [content |-> IF innerHTML = <<>> THEN text ELSE innerHTML,
        chunksCreated |-> Cardinality({k \in 1..Len(nodes) :
                                          IsSplit(nodes[k], maxSentences)})]

----------------------------------------------------------------------------
(* addAnalogies: part_000 lines 546-569 *)

\* The template literal of line 562: the table's spelling of the concept,
\* then the marker.
AnalogyMarkup(concept, analogy) ==
    LET open  == <<" ","<","s","p","a","n"," ","c","l","a","s","s","=","\"",
                  "a","n","a","l","o","g","y","-","t","o","o","l","t","i","p","\""," ","t","i","t","l","e","=","\"">>
        close == <<"\"",">","bulb","<","/","s","p","a","n",">">>
    IN concept \o open \o analogy \o close

\* The forEach of lines 558-566 from table row n on.
RECURSIVE AnalogiesFrom(_, _)
AnalogiesFrom(n, acc) ==
    IF n > Len(analogyMap) THEN acc
    ELSE LET concept == analogyMap[n].concept
             analogy == analogyMap[n].analogy
         IN IF RegexTest(acc.content, concept)
            THEN AnalogiesFrom(n + 1,
                    [content |-> ReplaceFrom(acc.content, 1, concept,
                                            AnalogyMarkup(concept, analogy)),
                     analogies |-> Append(acc.analogies, [entry |-> "analogy", concept |-> concept])])
            ELSE AnalogiesFrom(n + 1, acc)

addAnalogies(text) == AnalogiesFrom(1, [content |-> text, analogies |-> <<>>])

----------------------------------------------------------------------------
(* analyzeVisuals: src/unnamed/part_000 lines 575-660 *)

AdvertisementContexts ==
    {"sidebar_advertisement", "popup_advertisement", "newsletter_signup"}

EssentialContexts == {"main_article_figure", "educational_content"}

Sensitivities == {"low", "medium", "high"}

FadeActions ==
    {"fade_to_20_percent_opacity", "fade_to_30_percent_opacity",
     "fade_to_40_percent_opacity", "fade_to_50_percent_opacity"}

\* One element of the request; position is optional in visualAnalysisSchema.
ElementsAt(i) ==
    LET contexts == {"sidebar_advertisement", "popup_advertisement",
                     "newsletter_signup", "decorative_stock_photo",
                     "main_article_figure", "educational_content",
                     "sidebar_content", "general_image"}
        withPos == [id : {<<"el", i>>}, type : {"image"},
                    semantic_context : contexts,
                    position : {"sidebar", "main"}]
        noPos   == [id : {<<"el", i>>}, type : {"image"},
                    semantic_context : {"general_image"}]
    IN withPos \cup noPos

RECURSIVE ElementListsOfLen(_)
ElementListsOfLen(n) ==
    IF n = 0 THEN {<<>>}
    ELSE {Append(l, e) : l \in ElementListsOfLen(n - 1), e \in ElementsAt(n)}

ElementLists == UNION {ElementListsOfLen(n) : n \in 0..MaxElements}

\* element.position, undefined when the key is absent
PositionOf(element) ==
    IF Has(element, "position") THEN element.position ELSE "undefined"

\* getActionReasoning: the template chosen by the action, with its parameters.
getActionReasoning(element, action, sensitivity) ==
    CASE action = "hide" ->
            <<"Hidden due to", sensitivity, "sensitivity to", element.semantic_context>>
      [] action = "keep_visible" ->
            <<"Kept visible - essential", element.semantic_context>>
      [] action = "fade_to_20_percent_opacity" ->
            <<"Faded to reduce visual distraction from", element.semantic_context>>
      [] action = "fade_to_30_percent_opacity" ->
            <<"Moderately faded -", element.semantic_context, "with", sensitivity, "sensitivity">>
      [] action = "fade_to_40_percent_opacity" ->
            <<"Lightly faded -", PositionOf(element), "content with", sensitivity, "sensitivity">>
      [] action = "fade_to_50_percent_opacity" ->
            <<"Reduced opacity - decorative content with", sensitivity, "sensitivity">>
      [] OTHER ->
            <<action, "applied to", element.semantic_context>>

\* The switch of lines 598-622: the action for one element.
ElementActionNoOverride(element, sensitivity) ==
    CASE element.semantic_context \in AdvertisementContexts ->
            IF sensitivity = "high" THEN "hide" ELSE "fade_to_30_percent_opacity"
      [] element.semantic_context = "decorative_stock_photo" ->
            IF sensitivity = "high" THEN "fade_to_20_percent_opacity"
            ELSE IF sensitivity = "medium" THEN "fade_to_50_percent_opacity"
            ELSE "keep_visible"
      [] OTHER ->
            IF sensitivity = "high" /\ PositionOf(element) = "sidebar"
            THEN "fade_to_40_percent_opacity"
            ELSE "keep_visible"

ElementActionAdsFadeOnly(element, sensitivity) ==
    CASE element.semantic_context \in AdvertisementContexts ->
            "fade_to_30_percent_opacity"
      [] element.semantic_context = "decorative_stock_photo" ->
            IF sensitivity = "high" THEN "fade_to_20_percent_opacity"
            ELSE IF sensitivity = "medium" THEN "fade_to_50_percent_opacity"
            ELSE "keep_visible"
      [] element.semantic_context \in EssentialContexts ->
            "keep_visible"
      [] OTHER ->
            IF sensitivity = "high" /\ PositionOf(element) = "sidebar"
            THEN "fade_to_40_percent_opacity"
            ELSE "keep_visible"

ElementActionSidebarAnySensitivity(element, sensitivity) ==
    CASE element.semantic_context \in AdvertisementContexts ->
            IF sensitivity = "high" THEN "hide" ELSE "fade_to_30_percent_opacity"
      [] element.semantic_context = "decorative_stock_photo" ->
            IF sensitivity = "high" THEN "fade_to_20_percent_opacity"
            ELSE IF sensitivity = "medium" THEN "fade_to_50_percent_opacity"
            ELSE "keep_visible"
      [] element.semantic_context \in EssentialContexts ->
            "keep_visible"
      [] OTHER ->
            IF PositionOf(element) = "sidebar"
            THEN "fade_to_40_percent_opacity"
            ELSE "keep_visible"

ElementAction(element, sensitivity) ==
    CASE element.semantic_context \in AdvertisementContexts ->
            IF sensitivity = "high" THEN "hide" ELSE "fade_to_30_percent_opacity"
      [] element.semantic_context = "decorative_stock_photo" ->
            IF sensitivity = "high" THEN "fade_to_20_percent_opacity"
            ELSE IF sensitivity = "medium" THEN "fade_to_50_percent_opacity"
            ELSE "keep_visible"
      [] element.semantic_context \in EssentialContexts ->
            "keep_visible"
      [] OTHER ->
            IF sensitivity = "high" /\ PositionOf(element) = "sidebar"
            THEN "fade_to_40_percent_opacity"
            ELSE "keep_visible"

\* Lines 580-592: the result when the filter is off; no reasoning is computed.
DisabledResult(els) ==
    [status |-> "success",
     visualActions |-> [i \in 1..Len(els) |->
        [id |-> els[i].id, action |-> "keep_visible"]],
     metadata |-> [filterEnabled |-> FALSE]]

\* Line 638 with === 'fade' for includes('fade'): no action is counted as a fade.
CountActionsExactFade(visualActions, S) ==
    Cardinality({i \in 1..Len(visualActions) :
                    visualActions[i].action \in S \cap {"hide", "keep_visible", "fade"}})

CountActions(visualActions, S) ==
    Cardinality({i \in 1..Len(visualActions) : visualActions[i].action \in S})

\* Lines 594-643: the result when the filter is on.
EnabledResult(els, sensitivity) ==
    LET visualActions == [i \in 1..Len(els) |->
            LET action == ElementAction(els[i], sensitivity)
            IN [id |-> els[i].id, action |-> action,
                reasoning |-> getActionReasoning(els[i], action, sensitivity)]]
    IN [status |-> "success",
        visualActions |-> visualActions,
        metadata |-> [filterEnabled |-> TRUE,
                      sensitivity |-> sensitivity,
                      elementsProcessed |-> Len(els),
                      actionsHide |-> CountActions(visualActions, {"hide"}),
                      actionsFade |-> CountActions(visualActions, FadeActions),
                      actionsKeep |-> CountActions(visualActions, {"keep_visible"})]]

\* Line 580 with the test inverted, `if (enabled)`.
FilterIsOffInverted(filter) == Has(filter, "enabled") /\ filter.enabled

FilterIsOff(filter) == ~ (Has(filter, "enabled") /\ filter.enabled)

\* analyzeVisuals(elements, profile).  Line 578 destructures
\* profile.visuals.distractionFilter outside any try block: a profile without
\* visuals, or without visuals.distractionFilter, throws a TypeError.
analyzeVisuals(els, prof) ==
    IF ~ Has(prof, "visuals") \/ ~ Has(prof.visuals, "distractionFilter")
    THEN Thrown("TypeError")
    ELSE LET filter == prof.visuals.distractionFilter
             sensitivity == IF Has(filter, "sensitivity")
                            THEN filter.sensitivity ELSE "undefined"
         IN IF FilterIsOff(filter)
            THEN DisabledResult(els)
            ELSE EnabledResult(els, sensitivity)

\* The profiles analyzeVisuals is called with.  The controller validates a
\* profile sent in the request body; a stored profile is used as it is, so
\* the visuals section may be missing or partial.
VisualProfiles ==
    {[visuals |-> [distractionFilter |-> f]] :
        f \in [enabled : BOOLEAN, sensitivity : Sensitivities]}
    \cup {[visuals |-> [other |-> TRUE]], [text |-> [other |-> TRUE]]}

InitVisuals ==
    /\ pc = "analyzeVisuals"
    /\ profile \in VisualProfiles
    /\ elements \in ElementLists
    /\ result = NoResult
    /\ IdleExcept({"visuals"})

\* The whole of analyzeVisuals: a synchronous function.
AnalyzeVisuals ==
    /\ pc = "analyzeVisuals"
    /\ result' = analyzeVisuals(elements, profile)
    /\ pc' = "done"
    /\ UNCHANGED <<profile, elements>>
    /\ UNCHANGED <<textVars, pageVars, modelVars, simplifyVars, genVars, stageVars, storeVars, batchVars>>

SpecVisuals == InitVisuals /\ [][AnalyzeVisuals]_vars

----------------------------------------------------------------------------
(* The texts handed to transformText *)

\* The words and phrases of the sentences: one no table holds, one the
\* vocabulary tables and the analogy table hold, one only the analogy table
\* holds.
TextWords ==
    {<<"T","h","e">>,
     <<"C","o","g","n","i","t","i","v","e"," ","f","r","a","m","e","w","o","r","k","s">>,
     <<"p","h","o","t","o","s","y","n","t","h","e","s","i","s">>}

\* n sentences, each a word or phrase and a full stop.
RECURSIVE SentenceListsOfLen(_)
SentenceListsOfLen(n) ==
    IF n = 0 THEN {<<>>}
    ELSE {Append(l, w \o <<".">>) : l \in SentenceListsOfLen(n - 1), w \in TextWords}

\* Running text: up to MaxSentences sentences, then possibly words with no
\* full stop after them.
PlainTexts ==
    {join(IF tail = <<>> THEN l ELSE Append(l, tail), <<" ">>) :
        l \in UNION {SentenceListsOfLen(n) : n \in 0..MaxSentences},
        tail \in {<<>>, <<"T","h","e">>}}

\* The contents: running text, bare or as one paragraph element.
Contents == PlainTexts \cup {POpen \o t \o PClose : t \in PlainTexts}

----------------------------------------------------------------------------
(* transformText: part_000 lines 426-480 *)

\* The profiles transformText is called with: those cognitiveProfileSchema
\* accepts as far as transformText reads them and, since a stored profile is
\* used as it is (part_003 lines 34-46, 282-293), profiles that lack a
\* section.  maxLength ranges over 0..MaxSentences: the schema asks for 1 or
\* more, a stored profile may hold 0.
TextProfiles ==
    LET chunking ==
            {[strategy |-> "none"]}
            \cup [strategy : {"sentence_limit"}, maxLength : 0..MaxSentences]
            \cup {[strategy |-> "sentence_limit"]}
        vocabulary ==
            [simplificationLevel : {"none", "basic", "intermediate", "advanced"}]
        simplification == [useAnalogies : BOOLEAN]
    IN [text : [chunking : chunking, vocabulary : vocabulary],
        simplification : simplification]
       \cup [text : [chunking : chunking,
                     vocabulary : {[simplificationLevel |-> "basic"]}]]
       \cup [text : [vocabulary : {[simplificationLevel |-> "basic"]}],
             simplification : simplification]
       \cup {[text |-> [chunking |-> [strategy |-> "none"]],
              simplification |-> [useAnalogies |-> TRUE]],
             [simplification |-> [useAnalogies |-> TRUE]]}

\* profile.text.vocabulary.simplificationLevel can be read (line 434).
CanReadVocabulary(prof) == Has(prof, "text") /\ Has(prof.text, "vocabulary")

\* profile.text.chunking.strategy can be read (line 441).
CanReadChunking(prof) == Has(prof, "text") /\ Has(prof.text, "chunking")

\* profile.simplification.useAnalogies can be read (line 448).
CanReadSimplification(prof) == Has(prof, "simplification")

LevelOf(prof) ==
    IF Has(prof.text.vocabulary, "simplificationLevel")
    THEN prof.text.vocabulary.simplificationLevel ELSE "undefined"

\* Line 441 with the strategy not looked at.
ChunkingStageAlwaysOn(prof) == TRUE

\* Line 441.
ChunkingStageOn(prof) ==
    Has(prof.text.chunking, "strategy")
        /\ prof.text.chunking.strategy = "sentence_limit"

\* Line 448.
AnalogyStageOn(prof) ==
    Has(prof.simplification, "useAnalogies") /\ prof.simplification.useAnalogies

\* The catch block of lines 472-479, but handing back the working content.
ErrorResultPartial(original, working, message) ==
    [status |-> "error", error |-> message, transformedContent |-> working]

\* The catch block of lines 472-479: the original content comes back.
ErrorResult(original, working, message) ==
    [status |-> "error", error |-> message, transformedContent |-> original]

\* The return of lines 456-470 (processingTime and the echo of the profile
\* settings left out).
SuccessResult(original, working, log, prof) ==
    [status |-> "success",
     transformedContent |-> working,
     metadata |-> [originalLength |-> Len(original),
                   transformedLength |-> Len(working),
                   transformations |-> log]]

\* Where a finished transformText goes on: back in transformPage's loop
\* when it was called from there.
AfterTransformText ==
    CASE caller = "transformPage" -> "page_assign"
      [] caller = "TransformationController" -> "respond"
      [] OTHER -> "done"

\* An exception inside the try block: the catch returns the error result.
TtCatch(message) ==
    /\ result' = ErrorResult(content, transformedContent, message)
    /\ pc' = AfterTransformText
    /\ UNCHANGED <<transformedContent, transformationLog>>

\* Step 1, lines 433-438.
TtVocabulary ==
    /\ pc = "vocabulary"
    /\ IF ~ CanReadVocabulary(profile)
       THEN TtCatch("TypeError")
       ELSE /\ IF LevelOf(profile) # "none"
               THEN LET r == simplifyVocabulary(transformedContent, LevelOf(profile))
                    IN /\ transformedContent' = r.content
                       /\ transformationLog' = transformationLog \o r.replacements
               ELSE UNCHANGED <<transformedContent, transformationLog>>
            /\ pc' = "chunking"
            /\ UNCHANGED result
    /\ UNCHANGED <<profile, content, caller>>
    /\ UNCHANGED <<visualVars, pageVars, modelVars, simplifyVars, genVars, stageVars, storeVars, batchVars>>

\* Step 2, lines 440-445.  An undefined maxLength makes the test of line 516
\* false for every paragraph, as a limit above any sentence count does.
TtChunking ==
    /\ pc = "chunking"
    /\ IF ~ CanReadChunking(profile)
       THEN TtCatch("TypeError")
       ELSE IF ~ ChunkingStageOn(profile)
       THEN /\ pc' = "analogies"
            /\ UNCHANGED <<transformedContent, transformationLog, result>>
       ELSE LET maxSentences ==
                    IF Has(profile.text.chunking, "maxLength")
                    THEN profile.text.chunking.maxLength
                    ELSE Len(transformedContent) + 1
            IN IF ChunkingDiverges(transformedContent, maxSentences)
               THEN /\ pc' = "diverged"
                    /\ UNCHANGED <<transformedContent, transformationLog, result>>
               ELSE LET r == chunkParagraphs(transformedContent, maxSentences)
                    IN /\ transformedContent' = r.content
                       /\ transformationLog' =
                             Append(transformationLog, [entry |-> "chunked", chunksCreated |-> r.chunksCreated])
                       /\ pc' = "analogies"
                       /\ UNCHANGED result
    /\ UNCHANGED <<profile, content, caller>>
    /\ UNCHANGED <<visualVars, pageVars, modelVars, simplifyVars, genVars, stageVars, storeVars, batchVars>>

\* Step 3, lines 447-452.
TtAnalogies ==
    /\ pc = "analogies"
    /\ IF ~ CanReadSimplification(profile)
       THEN TtCatch("TypeError")
       ELSE /\ IF AnalogyStageOn(profile)
               THEN LET r == addAnalogies(transformedContent)
                    IN /\ transformedContent' = r.content
                       /\ transformationLog' = transformationLog \o r.analogies
               ELSE UNCHANGED <<transformedContent, transformationLog>>
            /\ pc' = "return"
            /\ UNCHANGED result
    /\ UNCHANGED <<profile, content, caller>>
    /\ UNCHANGED <<visualVars, pageVars, modelVars, simplifyVars, genVars, stageVars, storeVars, batchVars>>

\* Lines 454-470: every field read here was read before without throwing.
TtReturn ==
    /\ pc = "return"
    /\ result' = SuccessResult(content, transformedContent, transformationLog, profile)
    /\ pc' = AfterTransformText
    /\ UNCHANGED <<profile, content, caller, transformedContent, transformationLog>>
    /\ UNCHANGED <<visualVars, pageVars, modelVars, simplifyVars, genVars, stageVars, storeVars, batchVars>>

InitText ==
    /\ pc = "vocabulary"
    /\ profile \in TextProfiles
    /\ content \in Contents
    /\ transformedContent = content
    /\ transformationLog = <<>>
    /\ caller = "none"
    /\ result = NoResult
    /\ IdleExcept({"text"})


----------------------------------------------------------------------------
(* transformPage: part_000 lines 666-853 *)

\* Bound: the number of elements of a page.
MaxPageNodes == 2

\* The elements of the model's pages: two paragraphs, an image that has the
\* id extractVisualElements gives the first image, and one without an id.
PageNodes ==
    {<<"<","p",">","T","h","e",".","<","/","p",">">>,
     <<"<","p",">","C","o","g","n","i","t","i","v","e"," ",
       "f","r","a","m","e","w","o","r","k","s",".","<","/","p",">">>,
     <<"<","i","m","g"," ","i","d","=","\"","i","m","g","-","0","\""," ",
       "s","r","c","=","\"","a","d",".","p","n","g","\"",">">>,
     <<"<","i","m","g"," ","s","r","c","=","\"","p","h","o","t","o",".","p","n","g","\"",">">>}

RECURSIVE PagesOfLen(_, _)
PagesOfLen(nodes, n) ==
    IF n = 0 THEN {<<>>}
    ELSE {page \o node : page \in PagesOfLen(nodes, n - 1), node \in nodes}

\* The htmlContent arguments: body fragments of up to MaxPageNodes elements.
Pages == UNION {PagesOfLen(PageNodes, n) : n \in 0..MaxPageNodes}

\* Pages for the visual half of transformPage, of up to MaxPageNodes
\* elements: a paragraph, an image with the id of the first image, an image
\* in an article whose file name holds the letters "ad", an image in an
\* article with a plain file name, an iframe, and an aside with the id of
\* the first aside.
VisualPages ==
    LET nodes == {<<"<","p",">","T","h","e",".","<","/","p",">">>,
                  <<"<","i","m","g"," ","i","d","=","\"","i","m","g","-","0","\""," ","s","r","c","=","\"","a","d",".","p","n","g","\"",">">>,
                  <<"<","a","r","t","i","c","l","e",">","<","i","m","g"," ","s","r","c","=","\"","h","e","a","d",".","p","n","g","\""," ","a","l","t","=","\"","F","i","g","u","r","e"," ","1","\"",">","<","/","a","r","t","i","c","l","e",">">>,
                  <<"<","a","r","t","i","c","l","e",">","<","i","m","g"," ","s","r","c","=","\"","m","a","p",".","p","n","g","\"",">","<","/","a","r","t","i","c","l","e",">">>,
                  <<"<","i","f","r","a","m","e"," ","s","r","c","=","\"","h","t","t","p","s",":","/","/","a","d","s",".","i","o","/","a","\"",">","<","/","i","f","r","a","m","e",">">>,
                  <<"<","a","s","i","d","e"," ","i","d","=","\"","a","s","i","d","e","-","0","\"",">","L","i","n","k","s","<","/","a","s","i","d","e",">">>}
    IN UNION {PagesOfLen(nodes, n) : n \in 0..MaxPageNodes}

\* The profiles transformPage is called with: each section present as the
\* schema describes it, or missing.
PageProfiles ==
    LET text ==
            [chunking : {[strategy |-> "none"],
                         [strategy |-> "sentence_limit", maxLength |-> 1]},
             vocabulary : [simplificationLevel : {"none", "basic"}]]
        simplification == [useAnalogies : BOOLEAN]
        visuals ==
            {[distractionFilter |-> [enabled |-> TRUE, sensitivity |-> "high"]],
             [distractionFilter |-> [enabled |-> FALSE, sensitivity |-> "medium"]]}
    IN [text : text, simplification : simplification, visuals : visuals]
       \cup [text : text, simplification : simplification]
       \cup [text : text, visuals : visuals]
       \cup [simplification : simplification, visuals : visuals]

\* document.body.innerHTML
BodyHTML(doc) == join([k \in 1..Len(doc) |-> OuterHTML(doc[k])], <<>>)

\* dom.serialize(), line 696: the html, head and body elements the parser
\* supplied are written out around the body.
serialize(doc) ==
    <<"<","h","t","m","l",">","<","h","e","a","d",">","<","/","h","e","a","d",">",
      "<","b","o","d","y",">">>
        \o BodyHTML(doc) \o <<"<","/","b","o","d","y",">","<","/","h","t","m","l",">">>

\* extractTextContent, lines 724-727: the indexes, in document order, of the
\* elements the selector finds (of p, h1-h6, div and span the model's pages
\* hold p only) whose trimmed textContent is not empty.
extractTextContent(doc) ==
    SelectSeq([k \in 1..Len(doc) |-> k],
              LAMBDA k : doc[k].tag = "p" /\ Len(trim(textContent(doc[k].inner))) > 0)

\* Which of the elements getElementPosition and classifyImageContext ask
\* closest() for enclose the place at of html: more start tags than end tags
\* of that name come before it.
Ancestors(html, at) ==
    LET names == [article |-> <<"a","r","t","i","c","l","e">>, aside |-> <<"a","s","i","d","e">>,
                  header |-> <<"h","e","a","d","e","r">>, footer |-> <<"f","o","o","t","e","r">>,
                  main |-> <<"m","a","i","n">>]
        opened(name) == Cardinality({i \in 1..(at - 1) :
                            StartsWithAt(html, i, <<"<">> \o name)})
        closed(name) == Cardinality({i \in 1..(at - 1) :
                            StartsWithAt(html, i, <<"<","/">> \o name \o <<">">>)})
    IN {n \in DOMAIN names : opened(names[n]) > closed(names[n])}

\* document.querySelectorAll(name) for img, iframe and aside: the elements
\* of that name in document order, each with its start tag and the elements
\* around it (no other tag name of the model's pages starts with the name).
RECURSIVE TagsFrom(_, _, _)
TagsFrom(html, i, name) ==
    LET at == IndexOfFrom(html, i, <<"<">> \o name)
        gt == FirstIndexOf(html, at, {">"})
    IN IF at > Len(html) THEN <<>>
       ELSE <<[tag |-> SubSeq(html, at, gt), ancestors |-> Ancestors(html, at)]>>
               \o TagsFrom(html, gt + 1, name)

\* The value of attribute name in a start tag; the empty string when the
\* tag does not have it, which is what img.src, img.alt, img.className and
\* img.id give then.
AttrValue(tag, name) ==
    LET pat  == <<" ">> \o name \o <<"=", "\"">>
        at   == IndexOfFrom(tag, 1, pat)
        from == at + Len(pat)
    IN IF at > Len(tag) THEN <<>>
       ELSE SubSeq(tag, from, FirstIndexOf(tag, from, {"\""}) - 1)

\* The decimal digits of n, as a template literal writes a number.
RECURSIVE DecimalString(_)
DecimalString(n) ==
    LET digits == <<"0","1","2","3","4","5","6","7","8","9">>
    IN IF n < 10 THEN <<digits[n + 1]>>
       ELSE DecimalString(n \div 10) \o <<digits[(n % 10) + 1]>>

\* classifyImageContext, lines 775-791.
classifyImageContext(img) ==
    LET src       == toLowerCase(AttrValue(img.tag, <<"s","r","c">>))
        alt       == toLowerCase(AttrValue(img.tag, <<"a","l","t">>))
        className == toLowerCase(AttrValue(img.tag, <<"c","l","a","s","s">>))
    IN IF includes(src, <<"a","d">>) \/ includes(className, <<"a","d">>)
       THEN "sidebar_advertisement"
       ELSE IF includes(src, <<"s","t","o","c","k">>)
                  \/ includes(alt, <<"d","e","c","o","r","a","t","i","v","e">>)
       THEN "decorative_stock_photo"
       ELSE IF "article" \in img.ancestors \/ includes(alt, <<"f","i","g","u","r","e">>)
       THEN "main_article_figure"
       ELSE "general_image"

\* classifyIframeContext, lines 796-807.
classifyIframeContext(iframe) ==
    LET src == toLowerCase(AttrValue(iframe.tag, <<"s","r","c">>))
    IN IF includes(src, <<"y","o","u","t","u","b","e">>) \/ includes(src, <<"v","i","m","e","o">>)
       THEN "educational_content"
       ELSE IF includes(src, <<"a","d","s">>) \/ includes(src, <<"d","o","u","b","l","e","c","l","i","c","k">>)
       THEN "sidebar_advertisement"
       ELSE "embedded_content"

\* getElementPosition, lines 812-819 (no element of the model's pages has
\* the class sidebar).
getElementPosition(element) ==
    IF "aside" \in element.ancestors THEN "sidebar"
    ELSE IF "header" \in element.ancestors THEN "header"
    ELSE IF "footer" \in element.ancestors THEN "footer"
    ELSE IF element.ancestors \cap {"article", "main"} # {} THEN "main"
    ELSE "inline"

\* extractVisualElements, lines 732-770: the images, then the iframes, then
\* the asides, each kind numbered from 0.  jsdom does no layout, so width
\* and height are 0.
extractVisualElements(doc) ==
    LET html    == BodyHTML(doc)
        imgs    == TagsFrom(html, 1, <<"i","m","g">>)
        iframes == TagsFrom(html, 1, <<"i","f","r","a","m","e">>)
        asides  == TagsFrom(html, 1, <<"a","s","i","d","e">>)
    IN [k \in 1..Len(imgs) |->
          [id |-> <<"i","m","g","-">> \o DecimalString(k - 1),
           type |-> "image",
           semantic_context |-> classifyImageContext(imgs[k]),
           position |-> getElementPosition(imgs[k]),
           size |-> [width |-> 0, height |-> 0]]]
       \o [k \in 1..Len(iframes) |->
          [id |-> <<"i","f","r","a","m","e","-">> \o DecimalString(k - 1),
           type |-> "iframe",
           semantic_context |-> classifyIframeContext(iframes[k]),
           position |-> getElementPosition(iframes[k])]]
       \o [k \in 1..Len(asides) |->
          [id |-> <<"a","s","i","d","e","-">> \o DecimalString(k - 1),
           type |-> "aside",
           semantic_context |-> "sidebar_content",
           position |-> "sidebar"]]

\* The declaration the switch of lines 832-850 sets; empty for keep_visible
\* and for any other action.
StyleOf(action) ==
    LET opacity == <<"o","p","a","c","i","t","y",":"," ","0",".">>
    IN CASE action = "hide" -> <<"d","i","s","p","l","a","y",":"," ","n","o","n","e",";">>
         [] action = "fade_to_20_percent_opacity" -> opacity \o <<"2", ";">>
         [] action = "fade_to_30_percent_opacity" -> opacity \o <<"3", ";">>
         [] action = "fade_to_40_percent_opacity" -> opacity \o <<"4", ";">>
         [] action = "fade_to_50_percent_opacity" -> opacity \o <<"5", ";">>
         [] OTHER -> <<>>

\* Where in html the start tag of the element of lines 826-827 closes:
\* document.getElementById(id), or else the first element with that
\* data-element-id; 0 when there is none.
FindElement(html, id) ==
    LET byId   == IndexOfFrom(html, 1, <<" ","i","d","=","\"">> \o id \o <<"\"">>)
        byData == IndexOfFrom(html, 1,
                      <<" ","d","a","t","a","-","e","l","e","m","e","n","t","-","i","d","=","\"">>
                          \o id \o <<"\"">>)
        at     == IF byId <= Len(html) THEN byId ELSE byData
    IN IF at > Len(html) THEN 0 ELSE FirstIndexOf(html, at, {">"})

\* applyVisualActions, lines 824-853, on the body markup from action n on.
RECURSIVE ApplyFrom(_, _, _)
ApplyFrom(html, visualActions, n) ==
    IF n > Len(visualActions) THEN html
    ELSE LET gt    == FindElement(html, visualActions[n].id)
             style == StyleOf(visualActions[n].action)
         IN IF gt = 0 \/ style = <<>>
            THEN ApplyFrom(html, visualActions, n + 1)
            ELSE ApplyFrom(SubSeq(html, 1, gt - 1)
                               \o <<" ","s","t","y","l","e","=","\"">> \o style \o <<"\"">>
                               \o SubSeq(html, gt, Len(html)),
                           visualActions, n + 1)

applyVisualActions(doc, visualActions) ==
    ParseBody(ApplyFrom(BodyHTML(doc), visualActions, 1), 1)

\* The catch block of lines 711-718.
PageErrorResult(original, message) ==
    [status |-> "error", error |-> message, transformedHtml |-> original]

\* The object of lines 694-709 can be built: it reads profile.text.chunking,
\* profile.text.vocabulary.simplificationLevel,
\* profile.simplification.useAnalogies and profile.visuals.distractionFilter.
CanReadPageProfile(prof) ==
    /\ Has(prof, "text") /\ Has(prof.text, "vocabulary")
    /\ Has(prof, "simplification") /\ Has(prof, "visuals")

\* The return of lines 694-709 (processingTime left out).
PageSuccessResult(doc, count, visualAnalysis, prof) ==
    [status |-> "success",
     transformedHtml |-> serialize(doc),
     metadata |-> [textTransformations |-> count,
                   visualTransformations |-> Len(visualAnalysis.visualActions),
                   profile |-> [chunking |-> prof.text.chunking,
                                vocabulary |-> prof.text.vocabulary.simplificationLevel,
                                analogies |-> prof.simplification.useAnalogies,
                                distractionFilter |-> prof.visuals.distractionFilter]]]

\* Lines 670-675: parse the page and collect its text nodes.
PageStart ==
    /\ pc = "page_start"
    /\ document' = ParseBody(htmlContent, 1)
    /\ textNodes' = extractTextContent(document')
    /\ nodeIndex' = 1
    /\ textTransformations' = 0
    /\ pc' = "page_loop"
    /\ UNCHANGED <<profile, result, htmlContent, caller, elements,
                   content, transformedContent, transformationLog>>
    /\ UNCHANGED <<modelVars, simplifyVars, genVars, stageVars, storeVars, batchVars>>

\* Lines 677-679: the next text node, if any, goes to transformText.
PageLoop ==
    /\ pc = "page_loop"
    /\ IF nodeIndex > Len(textNodes)
       THEN /\ pc' = "page_visuals"
            /\ UNCHANGED <<content, transformedContent, transformationLog, result>>
       ELSE /\ content' = textContent(document[textNodes[nodeIndex]].inner)
            /\ transformedContent' = content'
            /\ transformationLog' = <<>>
            /\ result' = NoResult
            /\ pc' = "vocabulary"
    /\ UNCHANGED <<profile, caller, elements, htmlContent, document, textNodes,
                   nodeIndex, textTransformations>>
    /\ UNCHANGED <<modelVars, simplifyVars, genVars, stageVars, storeVars, batchVars>>

\* Lines 680-683: a success result is written into the node.
PageAssign ==
    /\ pc = "page_assign"
    /\ IF result.status = "success"
       THEN /\ document' = [document EXCEPT
                               ![textNodes[nodeIndex]].inner = result.transformedContent]
            /\ textTransformations' = textTransformations + 1
       ELSE UNCHANGED <<document, textTransformations>>
    /\ nodeIndex' = nodeIndex + 1
    /\ pc' = "page_loop"
    /\ UNCHANGED <<profile, result, caller, elements, htmlContent, textNodes,
                   content, transformedContent, transformationLog>>
    /\ UNCHANGED <<modelVars, simplifyVars, genVars, stageVars, storeVars, batchVars>>

\* Lines 686-718: the visual elements are extracted, analysed and styled and
\* the result is built; an exception on the way goes to the catch block.
PageVisuals ==
    /\ pc = "page_visuals"
    /\ LET visualElements == extractVisualElements(document)
           visualAnalysis == analyzeVisuals(visualElements, profile)
           styled == IF visualAnalysis.status = "success"
                     THEN applyVisualActions(document, visualAnalysis.visualActions)
                     ELSE document
       IN /\ elements' = visualElements
          /\ IF IsThrown(visualAnalysis)
             THEN /\ result' = PageErrorResult(htmlContent, "TypeError")
                  /\ UNCHANGED document
             ELSE /\ document' = styled
                  /\ result' =
                        IF CanReadPageProfile(profile)
                        THEN PageSuccessResult(styled, textTransformations,
                                               visualAnalysis, profile)
                        ELSE PageErrorResult(htmlContent, "TypeError")
    /\ pc' = "done"
    /\ UNCHANGED <<profile, caller, htmlContent, textNodes, nodeIndex,
                   textTransformations, content, transformedContent, transformationLog>>
    /\ UNCHANGED <<modelVars, simplifyVars, genVars, stageVars, storeVars, batchVars>>

InitPage ==
    /\ pc = "page_start"
    /\ profile \in PageProfiles
    /\ htmlContent \in Pages
    /\ caller = "transformPage"
    /\ result = NoResult
    /\ elements = <<>>
    /\ document = <<>> /\ textNodes = <<>> /\ nodeIndex = 0 /\ textTransformations = 0
    /\ content = <<>> /\ transformedContent = <<>> /\ transformationLog = <<>>
    /\ IdleExcept({"visuals", "text", "page"})

\* transformPage on a page of VisualPages with a complete profile whose
\* text stages are off: the distraction filter on or off, every sensitivity.
InitPageVisuals ==
    /\ pc = "page_start"
    /\ profile \in [text : {[chunking |-> [strategy |-> "none"],
                             vocabulary |-> [simplificationLevel |-> "none"]]},
                    simplification : {[useAnalogies |-> FALSE]},
                    visuals : [distractionFilter :
                                  [enabled : BOOLEAN, sensitivity : Sensitivities]]]
    /\ htmlContent \in VisualPages
    /\ caller = "transformPage"
    /\ result = NoResult
    /\ elements = <<>>
    /\ document = <<>> /\ textNodes = <<>> /\ nodeIndex = 0 /\ textTransformations = 0
    /\ content = <<>> /\ transformedContent = <<>> /\ transformationLog = <<>>
    /\ IdleExcept({"visuals", "text", "page"})

InitTransform == InitText \/ InitPage

NextTransform ==
    \/ TtVocabulary
    \/ TtChunking
    \/ TtAnalogies
    \/ TtReturn
    \/ PageStart
    \/ PageLoop
    \/ PageAssign
    \/ PageVisuals

SpecTransform == InitTransform /\ [][NextTransform]_vars

SpecPage == InitPageVisuals /\ [][NextTransform]_vars

----------------------------------------------------------------------------
(* ClaudeSimplificationService (part_000 lines 4-417) behind                *)
(* SimplificationController (simplificationController.js lines 10-138)      *)

\* The return of lines 47-66 (simplifyText) and 274-300 (simplifyEssay);
\* statistics, timestamps and the profile echo left out.
ModelResult(entryPoint, original, written) ==
    IF entryPoint = "simplifyText"
    THEN [status |-> "success", simplifiedText |-> trim(written),
          originalText |-> original,
          metadata |-> [model |-> "claude-3.5-sonnet-v2"]]
    ELSE [status |-> "success", simplifiedEssay |-> trim(written),
          originalEssay |-> original,
          metadata |-> [model |-> "claude-3.5-sonnet-v2"]]

\* The forEach of lines 374-377 from table row n on: the simple word is put
\* in, with no markup.
RECURSIVE PlainReplaceFrom(_, _, _)
PlainReplaceFrom(mappings, n, s) ==
    IF n > Len(mappings) THEN s
    ELSE PlainReplaceFrom(mappings, n + 1,
                          ReplaceFrom(s, 1, mappings[n].complex, mappings[n].simple))

\* Line 380, replace(/([.!?])\s+/g, '$1\n\n'), from index i on.
RECURSIVE BreakSentencesFrom(_, _)
BreakSentencesFrom(s, i) ==
    LET ws   == {" ", "\n", "\t"}
        ends == {j \in i..(Len(s) - 1) : s[j] \in Terminators /\ s[j + 1] \in ws}
    IN IF ends = {} THEN SubSeq(s, i, Len(s))
       ELSE LET at == CHOOSE j \in ends : \A k \in ends : j <= k
            IN SubSeq(s, i, at) \o <<"\n", "\n">>
                  \o BreakSentencesFrom(s, FirstIndexNotOf(s, at + 1, ws))

\* fallbackSimplification, lines 363-397.  Line 367 calls require() in a file
\* that is written as an ES module (import and export statements): loaded as
\* an ES module there is no require and the call throws a ReferenceError;
\* compiled to CommonJS the call gives the tables.
fallbackSimplification(complexText, cognitiveProfile, scope) ==
    IF scope = "esm" THEN Thrown("ReferenceError")
    ELSE LET level ==
                 IF /\ Has(cognitiveProfile, "text")
                    /\ Has(cognitiveProfile.text, "vocabulary")
                    /\ Has(cognitiveProfile.text.vocabulary, "simplificationLevel")
                 THEN cognitiveProfile.text.vocabulary.simplificationLevel
                 ELSE "intermediate"
             replaced == PlainReplaceFrom(vocabularyMappings(level), 1, complexText)
         IN [status |-> "success",
             simplifiedText |-> BreakSentencesFrom(replaced, 1),
             originalText |-> complexText,
             metadata |-> [model |-> "local-fallback"]]

\* fallbackEssaySimplification, lines 402-414 (essayStructure left out).
fallbackEssaySimplification(essay, cognitiveProfile, scope) ==
    LET fallbackResult == fallbackSimplification(essay, cognitiveProfile, scope)
    IN IF IsThrown(fallbackResult) THEN fallbackResult
       ELSE [status |-> fallbackResult.status,
             simplifiedText |-> fallbackResult.simplifiedText,
             originalText |-> fallbackResult.originalText,
             simplifiedEssay |-> fallbackResult.simplifiedText,
             originalEssay |-> essay,
             metadata |-> fallbackResult.metadata]

\* Controller lines 11-40 and 79-108: an empty text is answered 400.  The
\* requests of the model carry their profile, so none is fetched.
SimplifyValidate ==
    /\ pc = "ctl_validate"
    /\ IF Len(trim(content)) = 0
       THEN http' = [status |-> 400] /\ pc' = "done"
       ELSE pc' = "svc_try" /\ UNCHANGED http
    /\ UNCHANGED result
    /\ UNCHANGED <<profile, textVars, visualVars, pageVars, modelVars,
                   moduleScope, entry, genVars, stageVars, storeVars, batchVars>>

\* The try block of simplifyText (lines 12-66) and simplifyEssay (244-300).
SimplifyTry ==
    /\ pc = "svc_try"
    /\ IF sendOutcome = "resolves"
       THEN result' = ModelResult(entry, content, modelText) /\ pc' = "ctl_respond"
       ELSE pc' = "svc_fallback" /\ UNCHANGED result
    /\ UNCHANGED http
    /\ UNCHANGED <<profile, textVars, visualVars, pageVars, modelVars,
                   moduleScope, entry, genVars, stageVars, storeVars, batchVars>>

\* The catch block, lines 68-74 and 302-305: what the fallback returns or
\* throws is what the call returns or rejects with.
SimplifyCatch ==
    /\ pc = "svc_fallback"
    /\ result' = IF entry = "simplifyText"
                 THEN fallbackSimplification(content, profile, moduleScope)
                 ELSE fallbackEssaySimplification(content, profile, moduleScope)
    /\ pc' = "ctl_respond"
    /\ UNCHANGED http
    /\ UNCHANGED <<profile, textVars, visualVars, pageVars, modelVars,
                   moduleScope, entry, genVars, stageVars, storeVars, batchVars>>

\* Controller lines 49-71 and 117-137: the result is sent with 200; a
\* rejected call goes to the controller's catch, which answers 500.
SimplifyRespond ==
    /\ pc = "ctl_respond"
    /\ http' = IF IsThrown(result)
               THEN [status |-> 500, details |-> result.threw]
               ELSE [status |-> 200, success |-> TRUE, result |-> result]
    /\ pc' = "done"
    /\ UNCHANGED result
    /\ UNCHANGED <<profile, textVars, visualVars, pageVars, modelVars,
                   moduleScope, entry, genVars, stageVars, storeVars, batchVars>>

\* The profiles of the simplification requests.
SimplifyProfiles ==
    {[text |-> [vocabulary |-> [simplificationLevel |-> level]]] :
        level \in {"basic", "intermediate"}}
    \cup {[simplification |-> [useAnalogies |-> FALSE]]}

InitSimplify ==
    /\ pc = "ctl_validate"
    /\ entry \in {"simplifyText", "simplifyEssay"}
    /\ content \in PlainTexts
    /\ profile \in SimplifyProfiles
    /\ moduleScope \in {"esm", "cjs"}
    \* What bedrockClient.send and the decoding of its response come to: the
    \* promise resolves with a body that holds content[0].text, it rejects,
    \* or the body is not JSON or holds no content[0].text; and the texts the
    \* model writes back.
    /\ sendOutcome \in {"resolves", "rejects", "malformed"}
    /\ modelText \in IF sendOutcome = "resolves"
                     THEN {<<"E","a","s","y"," ","w","o","r","d","s",".">>,
                           <<" ","E","a","s","y"," ","w","o","r","d","s","."," ">>}
                     ELSE {<<>>}
    /\ result = NoResult /\ http = NoResult
    /\ transformedContent = <<>> /\ transformationLog = <<>> /\ caller = "none"
    /\ IdleExcept({"text", "model", "simplify"})

NextSimplify == SimplifyValidate \/ SimplifyTry \/ SimplifyCatch \/ SimplifyRespond

SpecSimplify == InitSimplify /\ [][NextSimplify]_vars

----------------------------------------------------------------------------
(* BedrockService: bedrockService.js lines 9-179; cognitiveProfileSchema:  *)
(* validation.js lines 4-36                                                 *)

\* new Date().toISOString(): the clock of the model stands still.
Timestamp == "2026-01-01T00:00:00.000Z"

\* Lines 172-176 and 81-85; the line height 1.5 is kept as its numeral.
Preferences == [fontSize |-> 16, lineHeight |-> "1.5", colorScheme |-> "default"]

\* answers[key]?.toLowerCase().includes(needle): a test on a missing
\* answer is undefined, hence false.
AnswerSays(ans, key, needle) ==
    Has(ans, key) /\ includes(toLowerCase(ans[key]), needle)

\* Lines 152-162 with the branches the other way round: 'distract' is
\* tested first.
DistractionFilterWeakFirst(ans) ==
    IF AnswerSays(ans, "q2_distractions", <<"d","i","s","t","r","a","c","t">>)
    THEN [enabled |-> TRUE, sensitivity |-> "medium"]
    ELSE IF AnswerSays(ans, "q2_distractions",
                       <<"c","o","m","p","l","e","t","e","l","y"," ","d","e","r","a","i","l">>)
    THEN [enabled |-> TRUE, sensitivity |-> "high"]
    ELSE [enabled |-> FALSE, sensitivity |-> "medium"]

\* Lines 152-162: the distraction filter of the mock profile, starting from
\* the default of lines 121-124.
DistractionFilterOf(ans) ==
    IF \/ AnswerSays(ans, "q2_distractions",
                     <<"v","e","r","y"," ","d","i","s","t","r","a","c","t","e","d">>)
       \/ AnswerSays(ans, "q2_distractions",
                     <<"c","o","m","p","l","e","t","e","l","y"," ","d","e","r","a","i","l">>)
    THEN [enabled |-> TRUE, sensitivity |-> "high"]
    ELSE IF AnswerSays(ans, "q2_distractions", <<"d","i","s","t","r","a","c","t">>)
    THEN [enabled |-> TRUE, sensitivity |-> "medium"]
    ELSE [enabled |-> FALSE, sensitivity |-> "medium"]

\* generateMockProfile, lines 102-179.
generateMockProfile(ans) ==
    LET says(key, needle) == AnswerSays(ans, key, needle)
        shorter == \/ says("q1_reading_style", <<"s","h","o","r","t","e","r">>)
                   \/ says("q1_reading_style",
                           <<"2","-","3"," ","s","e","n","t","e","n","c","e","s">>)
        basic   == \/ says("q3_complex_topics", <<"s","i","m","p","l","e">>)
                   \/ says("q3_complex_topics", <<"b","a","s","i","c">>)
        analogy == \/ says("q3_complex_topics", <<"a","n","a","l","o","g">>)
                   \/ says("q3_complex_topics", <<"e","x","a","m","p","l","e">>)
    IN [text |->
           [chunking |-> [strategy |-> "sentence_limit",
                          maxLength |-> IF shorter THEN 3 ELSE 4],
            vocabulary |-> [simplificationLevel |->
                               IF basic THEN "basic" ELSE "intermediate"]],
        simplification |->
           [useAnalogies |-> analogy,
            summarization |-> [defaultState |-> "expanded", summaryLength |-> 25]],
        visuals |-> [distractionFilter |-> DistractionFilterOf(ans)],
        metadata |-> [createdAt |-> Timestamp, updatedAt |-> Timestamp,
                      version |-> "1.0",
                      generatedBy |-> "intelligent-mock-fallback"],
        preferences |-> Preferences]

\* cognitiveProfileSchema.validate(p) reports no error: every required key
\* is there, every value is in its range, and no object holds a key the
\* schema does not name (Joi rejects unknown keys unless told otherwise).
cognitiveProfileSchema(p) ==
    /\ DOMAIN p \subseteq {"text", "simplification", "visuals", "metadata"}
    /\ {"text", "simplification", "visuals"} \subseteq DOMAIN p
    /\ DOMAIN p.text = {"chunking", "vocabulary"}
    /\ LET chunking == p.text.chunking
       IN /\ DOMAIN chunking \subseteq {"strategy", "maxLength"}
          /\ Has(chunking, "strategy")
          /\ chunking.strategy \in {"sentence_limit", "none"}
          /\ chunking.strategy = "sentence_limit" => Has(chunking, "maxLength")
          /\ Has(chunking, "maxLength") => chunking.maxLength \in 1..10
    /\ DOMAIN p.text.vocabulary = {"simplificationLevel"}
    /\ p.text.vocabulary.simplificationLevel
          \in {"none", "basic", "intermediate", "advanced"}
    /\ DOMAIN p.simplification = {"useAnalogies", "summarization"}
    /\ p.simplification.useAnalogies \in BOOLEAN
    /\ DOMAIN p.simplification.summarization = {"defaultState", "summaryLength"}
    /\ p.simplification.summarization.defaultState \in {"collapsed", "expanded"}
    /\ p.simplification.summarization.summaryLength \in 5..75
    /\ DOMAIN p.visuals = {"distractionFilter"}
    /\ DOMAIN p.visuals.distractionFilter = {"enabled", "sensitivity"}
    /\ p.visuals.distractionFilter.enabled \in BOOLEAN
    /\ p.visuals.distractionFilter.sensitivity \in Sensitivities
    /\ Has(p, "metadata") =>
          /\ DOMAIN p.metadata \subseteq {"createdAt", "updatedAt", "version"}
          /\ Has(p.metadata, "createdAt") => p.metadata.createdAt = Timestamp
          /\ Has(p.metadata, "updatedAt") => p.metadata.updatedAt = Timestamp

\* JSON.parse on the texts the model writes back: what kind of value the text
\* is, or the SyntaxError.
JSONparse(text) ==
    CASE text = <<"{", "}">> -> [kind |-> "object"]
      [] text = <<"[", "]">> -> [kind |-> "array"]
      [] text = <<"n", "u", "l", "l">> -> [kind |-> "null"]
      [] text # <<>> /\ (\A i \in DOMAIN text :
                           text[i] \in {"0","1","2","3","4","5","6","7","8","9"}) ->
            [kind |-> "number"]
      [] OTHER -> Thrown("SyntaxError")

\* Lines 70-88 for a parsed value that takes properties: metadata and
\* preferences are set on it and it is returned.  The array is written as
\* the record of its length and its two new properties.
GeneratedProfile(parsed) ==
    LET metadata == [createdAt |-> Timestamp, updatedAt |-> Timestamp,
                     version |-> "2.0",
                     generatedBy |-> "claude-3-5-sonnet-bedrock"]
    IN IF parsed.kind = "object"
       THEN [metadata |-> metadata, preferences |-> Preferences]
       ELSE [length |-> 0, metadata |-> metadata, preferences |-> Preferences]

\* The try block of generateCognitiveProfile, lines 42-88.  Setting a
\* property on null or on a number throws a TypeError (the class body is
\* strict code), as a rejected send and a text that is not JSON throw.
GenerateTry ==
    /\ pc = "gen_try"
    /\ LET parsed == JSONparse(modelText)
       IN IF /\ sendOutcome = "resolves"
             /\ ~ IsThrown(parsed)
             /\ parsed.kind \in {"object", "array"}
          THEN result' = GeneratedProfile(parsed) /\ pc' = "done"
          ELSE pc' = "gen_fallback" /\ UNCHANGED result
    /\ UNCHANGED <<profile, textVars, visualVars, pageVars, modelVars,
                   simplifyVars, genVars, stageVars, storeVars, batchVars>>

\* The catch block, lines 89-95.
GenerateCatch ==
    /\ pc = "gen_fallback"
    /\ result' = generateMockProfile(answers)
    /\ pc' = "done"
    /\ UNCHANGED <<profile, textVars, visualVars, pageVars, modelVars,
                   simplifyVars, genVars, stageVars, storeVars, batchVars>>

\* The answers: onboardingSchema is not applied (profileController.js line
\* 216 is commented out), so any of the questions may be missing.
AnswerMaps ==
    LET q1 == {<<"S","h","o","r","t","e","r">>,
               <<"l","o","n","g">>}
        q2 == {<<"V","e","r","y"," ","d","i","s","t","r","a","c","t","e","d">>,
               <<"A","d","s"," ","c","o","m","p","l","e","t","e","l","y"," ","d","e","r","a","i","l"," ","m","e">>,
               <<"d","i","s","t","r","a","c","t","i","n","g">>,
               <<"c","a","l","m">>}
        q3 == {<<"S","i","m","p","l","e"," ","e","x","a","m","p","l","e","s">>,
               <<"a","n","a","l","o","g","y">>,
               <<"a","n","y">>}
    IN [q1_reading_style : q1, q2_distractions : q2, q3_complex_topics : q3]
       \cup [q2_distractions : q2, q3_complex_topics : q3]
       \cup [q1_reading_style : q1, q3_complex_topics : q3]
       \cup [q1_reading_style : q1, q2_distractions : q2]
       \cup {<<>>}

InitGenerate ==
    /\ pc = "gen_try"
    /\ answers \in AnswerMaps
    /\ sendOutcome \in {"resolves", "rejects", "malformed"}
    \* The model writes an object, an array, a number, null or no JSON.
    /\ modelText \in IF sendOutcome = "resolves"
                     THEN {<<"{", "}">>, <<"[", "]">>, <<"5">>, <<"n", "u", "l", "l">>,
                           <<"S","u","r","e","!">>}
                     ELSE {<<>>}
    /\ result = NoResult
    /\ profile = <<>>
    /\ IdleExcept({"model", "gen"})

NextGenerate == GenerateTry \/ GenerateCatch

SpecGenerate == InitGenerate /\ [][NextGenerate]_vars

----------------------------------------------------------------------------
(* The text stages called on their own: simplifyVocabulary (part_000 lines  *)
(* 485-501), chunkParagraphs (lines 506-534, loop by loop) and addAnalogies *)
(* (lines 546-569)                                                          *)

\* slice with the end left out: everything from start on.
sliceToEnd(arr, start, end) ==
    IF start < 0 \/ start >= Len(arr) THEN <<>> ELSE SubSeq(arr, start + 1, Len(arr))

\* Array.prototype.slice(start, end) on indexes from 0: a negative index
\* counts from the end, and an empty range gives the empty array.
slice(arr, start, end) ==
    LET clamp(k) == IF k < 0
                    THEN (IF Len(arr) + k < 0 THEN 0 ELSE Len(arr) + k)
                    ELSE (IF k > Len(arr) THEN Len(arr) ELSE k)
    IN IF clamp(start) >= clamp(end) THEN <<>>
       ELSE SubSeq(arr, clamp(start) + 1, clamp(end))

\* The arguments of the calls.  simplifyVocabulary: every word of the basic
\* table (the intermediate table holds no other), words in other letter
\* cases, inside longer words and next to punctuation, and texts with
\* several table words; the levels with a table, without one, and names
\* that are no level.  chunkParagraphs: one or two paragraph elements of 0
\* to MaxSentences + 1 sentences, possibly with more text after the last
\* terminator, text with no paragraph element, and a paragraph that holds
\* markup; maxSentences from -1 to MaxSentences.  addAnalogies: concepts of
\* the analogy table in several letter cases, once and more than once, and
\* inside a longer word.
StageInputs ==
    LET keys == {BasicMappings[k].complex : k \in DOMAIN BasicMappings}
        cases == {<<"U","b","i","q","u","i","t","o","u","s">>,
                  <<"U","B","I","Q","U","I","T","O","U","S">>,
                  <<"u","b","i","q","u","i","t","o","u","s","l","y">>,
                  <<"n","o","n","-","u","b","i","q","u","i","t","o","u","s">>,
                  <<"T","h","e"," ","u","b","i","q","u","i","t","o","u","s",","," ","U","b","i","q","u","i","t","o","u","s"," ","a","n","d"," ","U","B","I","Q","U","I","T","O","U","S",".">>,
                  <<"C","o","g","n","i","t","i","v","e"," ","f","r","a","m","e","w","o","r","k","s"," ","l","e","v","e","r","a","g","e"," ","e","m","e","r","g","e","n","t"," ","e","c","o","s","y","s","t","e","m","s",".">>,
                  <<"u","b","i","q","u","i","t","o","u","s","_","1">>,
                  <<"T","h","e"," ","c","a","t"," ","s","a","t",".">>,
                  <<>>}
        levels == {"none", "basic", "intermediate", "advanced", "expert",
                   "constructor"}
        all == <<<<"O","n","e",".">>,
                <<"T","w","o","!">>,
                <<"T","h","r","e","e","?">>,
                <<"F","o","u","r",".",".",".">>,
                <<"F","i","v","e",".">>>>
        tails == {<<>>, <<"a","n","d"," ","m","o","r","e">>}
        texts == {join(IF t = <<>> THEN SubSeq(all, 1, n)
                       ELSE Append(SubSeq(all, 1, n), t), <<" ">>) :
                     n \in 0..(MaxSentences + 1), t \in tails}
        paras == {POpen \o t \o PClose : t \in texts}
        docs == paras \cup {p \o q : p \in paras, q \in paras}
                  \cup {<<"O","n","e","."," ","T","w","o","!"," ","T","h","r","e","e","?">>,
                     <<"<","p",">","O","n","e"," ","<","s","p","a","n"," ","c","l","a","s","s","=","\"","s","i","m","p","l","i","f","i","e","d","-","w","o","r","d","\""," ","d","a","t","a","-","o","r","i","g","i","n","a","l","=","\"","e","p","o","c","h","\""," ","t","i","t","l","e","=","\"","O","r","i","g","i","n","a","l",":"," ","e","p","o","c","h","\"",">","t","i","m","e"," ","p","e","r","i","o","d","<","/","s","p","a","n",">","."," ","T","w","o","!"," ","T","h","r","e","e","?","<","/","p",">">>,
                     <<"<","p",">","O","n","e","."," ","T","w","o","!","<","/","p",">","a","n","d","<","p",">","T","h","r","e","e","?"," ","F","o","u","r",".",".","."," ","F","i","v","e",".","<","/","p",">">>}
        concepts == {<<"p","h","o","t","o","s","y","n","t","h","e","s","i","s">>,
                     <<"P","h","o","t","o","s","y","n","t","h","e","s","i","s"," ","i","s"," ","s","l","o","w",".">>,
                     <<"P","H","O","T","O","S","Y","N","T","H","E","S","I","S">>,
                     <<"p","h","o","t","o","s","y","n","t","h","e","s","i","s"," ","a","n","d"," ","p","h","o","t","o","s","y","n","t","h","e","s","i","s">>,
                     <<"P","h","o","t","o","s","y","n","t","h","e","s","i","s",","," ","t","h","e","n"," ","p","h","o","t","o","s","y","n","t","h","e","s","i","s",","," ","t","h","e","n"," ","P","H","O","T","O","S","Y","N","T","H","E","S","I","S",".">>,
                     <<"t","h","e"," ","r","e","n","a","i","s","s","a","n","c","e">>,
                     <<"T","h","e"," ","R","e","n","a","i","s","s","a","n","c","e">>,
                     <<"Q","u","a","n","t","u","m"," ","m","e","c","h","a","n","i","c","s"," ","a","n","d"," ","p","h","o","t","o","s","y","n","t","h","e","s","i","s",".">>,
                     <<"p","h","o","t","o","s","y","n","t","h","e","s","i","s","e","d">>,
                     <<"T","h","e"," ","c","a","t"," ","s","a","t",".">>,
                     <<"b","i","o","c","h","e","m","i","c","a","l"," ","p","r","o","c","e","s","s">>,
                     <<"C","o","g","n","i","t","i","v","e"," ","F","r","a","m","e","w","o","r","k","s"," ","a","n","d"," ","c","o","g","n","i","t","i","v","e"," ","f","r","a","m","e","w","o","r","k","s">>}
    IN [stage : {"simplifyVocabulary"}, content : keys \cup cases,
        level : levels, maxSentences : {0}]
       \cup [stage : {"chunkParagraphs"}, content : docs,
             level : {"none"}, maxSentences : (0 - 1)..MaxSentences]
       \cup [stage : {"addAnalogies"}, content : concepts,
             level : {"none"}, maxSentences : {0}]

InitStages ==
    /\ \E input \in StageInputs :
          /\ stage = input.stage
          /\ pc = input.stage
          /\ content = input.content
          /\ levelArg = input.level
          /\ maxSentencesArg = input.maxSentences
    /\ paragraphs = <<>> /\ paragraphIndex = 0 /\ sentenceIndex = 0
    /\ chunks = <<>> /\ chunksCreated = 0
    /\ profile = <<>>
    /\ transformedContent = <<>> /\ transformationLog = <<>> /\ caller = "none"
    /\ result = NoResult
    /\ IdleExcept({"text", "stage"})

\* simplifyVocabulary(content, levelArg): a synchronous function.
CallSimplifyVocabulary ==
    /\ pc = "simplifyVocabulary"
    /\ result' = simplifyVocabulary(content, levelArg)
    /\ pc' = "done"
    /\ UNCHANGED <<profile, textVars, stageVars>>
    /\ UNCHANGED <<visualVars, pageVars, modelVars, simplifyVars, genVars, storeVars, batchVars>>

\* addAnalogies(content): a synchronous function.
CallAddAnalogies ==
    /\ pc = "addAnalogies"
    /\ result' = addAnalogies(content)
    /\ pc' = "done"
    /\ UNCHANGED <<profile, textVars, stageVars>>
    /\ UNCHANGED <<visualVars, pageVars, modelVars, simplifyVars, genVars, storeVars, batchVars>>

\* Lines 507-510 of chunkParagraphs: the content is parsed.
CallChunkParagraphs ==
    /\ pc = "chunkParagraphs"
    /\ paragraphs' = LET nodes == ParseBody(content, 1)
                     IN [k \in 1..Len(nodes) |->
                            [tag |-> nodes[k].tag, inner |-> nodes[k].inner,
                             html |-> OuterHTML(nodes[k])]]
    /\ paragraphIndex' = 1
    /\ chunksCreated' = 0
    /\ pc' = "chunk_forEach"
    /\ UNCHANGED <<content, result, stage, levelArg, maxSentencesArg, sentenceIndex, chunks>>
    /\ UNCHANGED <<profile, transformedContent, transformationLog, caller>>
    /\ UNCHANGED <<visualVars, pageVars, modelVars, simplifyVars, genVars, storeVars, batchVars>>

\* The forEach of lines 511-528 reaches the next p element and tests it
\* (line 516), or is over and the function returns (lines 530-533).
ChunkForEach ==
    /\ pc = "chunk_forEach"
    /\ LET rest == {k \in paragraphIndex..Len(paragraphs) : paragraphs[k].tag = "p"}
       IN IF rest = {}
          THEN /\ result' =
                    LET innerHTML == join([k \in 1..Len(paragraphs) |-> paragraphs[k].html], <<>>)
                    IN [content |-> IF innerHTML = <<>> THEN content ELSE innerHTML,
                        chunksCreated |-> chunksCreated]
               /\ pc' = "done"
               /\ UNCHANGED <<paragraphIndex, sentenceIndex, chunks>>
          ELSE LET p == CHOOSE k \in rest : \A j \in rest : k <= j
               IN IF IsSplit(paragraphs[p], maxSentencesArg)
                  THEN /\ paragraphIndex' = p
                       /\ sentenceIndex' = 0
                       /\ chunks' = <<>>
                       /\ pc' = "chunk_for"
                       /\ UNCHANGED result
                  ELSE /\ paragraphIndex' = p + 1
                       /\ UNCHANGED <<pc, result, sentenceIndex, chunks>>
    /\ UNCHANGED <<content, stage, levelArg, maxSentencesArg, paragraphs, chunksCreated>>
    /\ UNCHANGED <<profile, transformedContent, transformationLog, caller>>
    /\ UNCHANGED <<visualVars, pageVars, modelVars, simplifyVars, genVars, storeVars, batchVars>>

\* One turn of the loop of lines 519-522, or its end and lines 525-526.
\* The loop is followed until it has made one chunk more than the paragraph
\* has sentences.
ChunkFor ==
    /\ pc = "chunk_for"
    /\ LET sentences == splitIntoSentences(textContent(paragraphs[paragraphIndex].inner))
       IN IF sentenceIndex < Len(sentences)
          THEN /\ Len(chunks) <= Len(sentences)
               /\ chunks' = Append(chunks,
                     ChunkMarkup(join(slice(sentences, sentenceIndex,
                                            sentenceIndex + maxSentencesArg), <<" ">>)))
               /\ sentenceIndex' = sentenceIndex + maxSentencesArg
               /\ UNCHANGED <<pc, paragraphs, paragraphIndex, chunksCreated>>
          ELSE /\ paragraphs' = [paragraphs EXCEPT
                                    ![paragraphIndex].html = join(chunks, <<"\n">>)]
               /\ chunksCreated' = chunksCreated + 1
               /\ paragraphIndex' = paragraphIndex + 1
               /\ pc' = "chunk_forEach"
               /\ UNCHANGED <<sentenceIndex, chunks>>
    /\ UNCHANGED <<content, result, stage, levelArg, maxSentencesArg>>
    /\ UNCHANGED <<profile, transformedContent, transformationLog, caller>>
    /\ UNCHANGED <<visualVars, pageVars, modelVars, simplifyVars, genVars, storeVars, batchVars>>

NextStages ==
    \/ CallSimplifyVocabulary
    \/ CallAddAnalogies
    \/ CallChunkParagraphs
    \/ ChunkForEach
    \/ ChunkFor

SpecStages == InitStages /\ [][NextStages]_vars

----------------------------------------------------------------------------
(* DynamoService (part_001) behind ProfileController, OnboardingController  *)
(* (profileController.js) and TransformationController (part_003)           *)

\* The most requests one user sends.
MaxRequests == 3

\* The JavaScript value null.
Null == [null |-> TRUE]

\* getMockProfile(userId), lines 120-187: mockProfiles[userId], or the
\* profile of alex-chen-2025 for every other user id.
getMockProfile(user) ==
    IF user = "demo-user-2025"
    THEN [userId |-> "demo-user-2025",
          text |-> [chunking |-> [strategy |-> "sentence_limit", maxLength |-> 5],
                    vocabulary |-> [simplificationLevel |-> "intermediate"]],
          simplification |->
              [useAnalogies |-> FALSE,
               summarization |-> [defaultState |-> "expanded", summaryLength |-> 25]],
          visuals |-> [distractionFilter |-> [enabled |-> TRUE, sensitivity |-> "medium"]],
          metadata |-> [createdAt |-> "2025-01-10T14:20:00Z",
                        updatedAt |-> "2025-01-18T09:15:00Z",
                        version |-> "1.2", mockData |-> TRUE]]
    ELSE [userId |-> "alex-chen-2025",
          text |-> [chunking |-> [strategy |-> "sentence_limit", maxLength |-> 3],
                    vocabulary |-> [simplificationLevel |-> "basic"]],
          simplification |->
              [useAnalogies |-> TRUE,
               summarization |-> [defaultState |-> "collapsed", summaryLength |-> 15]],
          visuals |-> [distractionFilter |-> [enabled |-> TRUE, sensitivity |-> "high"]],
          metadata |-> [createdAt |-> "2025-01-15T10:30:00Z",
                        updatedAt |-> "2025-01-15T10:30:00Z",
                        version |-> "1.0", mockData |-> TRUE]]

\* dynamoService.getProfile(user) as a value: what the try block (lines
\* 9-24) or the catch block (lines 25-31) returns.
getProfile(user) ==
    IF storeOutcome = "resolves"
    THEN (IF user \in DOMAIN table THEN table[user] ELSE Null)
    ELSE getMockProfile(user)

\* The requests of one user: a call of dynamoService.getProfile, and the
\* handlers of POST /api/profile, POST /api/onboarding/generate,
\* PUT /api/profile/:userId, POST /api/transform/text and
\* POST /api/transform/visuals.  A body holds a profile the schema accepts
\* (with low or with high sensitivity), one it rejects, or, for the two
\* transform endpoints, none (the value Null); the store answers or fails;
\* the model answers the onboarding request with an object or fails.
Requests ==
    LET valid(s) ==
            [text |-> [chunking |-> [strategy |-> "none"],
                       vocabulary |-> [simplificationLevel |-> "none"]],
             simplification |->
                 [useAnalogies |-> FALSE,
                  summarization |-> [defaultState |-> "collapsed", summaryLength |-> 15]],
             visuals |-> [distractionFilter |-> [enabled |-> TRUE, sensitivity |-> s]]]
        invalid == [visuals |-> [distractionFilter |-> [enabled |-> TRUE]]]
        none == [send |-> {"none"}, answers |-> {<<>>}, content |-> {<<>>},
                 elements |-> {<<>>}, caller |-> {"none"}]
        request(entryPoint, start, bodies, fields) ==
            [entry : {entryPoint}, pc : {start}, profile : bodies,
             storeOutcome : {"resolves", "rejects"},
             sendOutcome : fields.send, answers : fields.answers,
             content : fields.content, elements : fields.elements,
             caller : fields.caller]
    IN request("getProfile", "getProfile", {<<>>}, none)
       \cup request("createProfile", "validate",
                    {valid("low"), valid("high"), invalid}, none)
       \cup request("updateProfile", "validate",
                    {valid("low"), valid("high"), invalid}, none)
       \cup request("generateProfile", "generate", {<<>>},
                    [none EXCEPT !.send = {"resolves", "rejects"},
                                 !.answers = {[q2_distractions |->
                                                  <<"c","a","l","m">>]}])
       \cup request("transformText", "validate", {valid("high"), Null},
                    [none EXCEPT !.content = {<<"T","h","e",".">>},
                                 !.caller = {"TransformationController"}])
       \cup request("analyzeVisuals", "validate", {valid("high"), Null},
                    [none EXCEPT !.elements =
                        {<<[id |-> <<"el", 1>>, type |-> "image",
                            semantic_context |-> "sidebar_advertisement"]>>}])

\* The first request of a user, the two of getMockProfile among the users,
\* on a table that holds an item for some of the user ids (an item carries
\* its key and one of two sets of settings).
InitStore ==
    LET users == {"alex-chen-2025", "demo-user-2025", "sam-lee-2025"}
        item(u, s) ==
            [userId |-> u,
             visuals |-> [distractionFilter |-> [enabled |-> TRUE, sensitivity |-> s]],
             createdAt |-> Timestamp, updatedAt |-> Timestamp]
    IN /\ userId \in users
       /\ \E stored \in SUBSET users :
             \E s \in [stored -> {"low", "high"}] :
                 table = [u \in stored |-> item(u, s[u])]
       /\ requests = 1
       /\ \E r \in Requests :
             /\ entry = r.entry /\ pc = r.pc /\ profile = r.profile
             /\ storeOutcome = r.storeOutcome /\ sendOutcome = r.sendOutcome
             /\ answers = r.answers /\ content = r.content
             /\ elements = r.elements /\ caller = r.caller
       /\ transformedContent = content /\ transformationLog = <<>>
       /\ modelText = <<>> /\ moduleScope = "none"
       /\ result = NoResult /\ http = NoResult
       /\ IdleExcept({"store", "simplify", "model", "gen", "text", "visuals"})

\* The request before is over and the user sends the next one.
Receive ==
    /\ pc = "done"
    /\ requests < MaxRequests
    /\ requests' = requests + 1
    /\ \E r \in Requests :
          /\ entry' = r.entry /\ pc' = r.pc /\ profile' = r.profile
          /\ storeOutcome' = r.storeOutcome /\ sendOutcome' = r.sendOutcome
          /\ answers' = r.answers /\ content' = r.content
          /\ elements' = r.elements /\ caller' = r.caller
    /\ transformedContent' = content' /\ transformationLog' = <<>>
    /\ result' = NoResult /\ http' = NoResult
    /\ UNCHANGED <<userId, table, modelText, moduleScope, pageVars, stageVars,
                   batchVars>>

\* The handlers up to their first await.  ProfileController.createProfile
\* and updateProfile validate the body with cognitiveProfileSchema
\* (profileController.js lines 62 and 123); TransformationController
\* validates it with textTransformSchema or visualAnalysisSchema (part_003
\* lines 20 and 90), which both require the profile key, then takes the
\* stored profile when the body has none (lines 34-46, 104-116) and calls
\* the service (lines 49, 119).
Validate ==
    /\ pc = "validate"
    /\ IF ~ cognitiveProfileSchema(profile)
       THEN /\ http' = [status |-> 400]
            /\ pc' = "done"
            /\ UNCHANGED <<profile, result>>
       ELSE IF entry \in {"createProfile", "updateProfile"}
       THEN /\ pc' = entry
            /\ UNCHANGED <<profile, result, http>>
       ELSE LET storedProfile == getProfile(userId)
                userProfile == IF profile = Null THEN storedProfile ELSE profile
            IN IF profile = Null /\ storedProfile = Null
               THEN /\ http' = [status |-> 404]
                    /\ pc' = "done"
                    /\ UNCHANGED <<profile, result>>
               ELSE /\ profile' = userProfile
                    /\ IF entry = "transformText"
                       THEN pc' = "vocabulary" /\ UNCHANGED result
                       ELSE /\ result' = analyzeVisuals(elements, userProfile)
                            /\ pc' = "respond"
                    /\ UNCHANGED http
    /\ UNCHANGED <<entry, moduleScope, textVars, visualVars, pageVars, modelVars,
                   genVars, stageVars, storeVars, batchVars>>

\* OnboardingController.generateProfile, profileController.js lines 234-237:
\* generateCognitiveProfile returns the object the model wrote, with its
\* metadata and preferences, or the mock profile.
Generate ==
    /\ pc = "generate"
    /\ profile' = IF sendOutcome = "resolves"
                  THEN GeneratedProfile([kind |-> "object"])
                  ELSE generateMockProfile(answers)
    /\ pc' = "createProfile"
    /\ UNCHANGED <<result, textVars, visualVars, pageVars, modelVars, simplifyVars,
                   genVars, stageVars, storeVars, batchVars>>

\* Lines 9-24: the GetCommand is sent; an answer without Item gives null.
GetProfileSend ==
    /\ pc = "getProfile"
    /\ IF storeOutcome = "resolves"
       THEN /\ result' = IF userId \in DOMAIN table THEN table[userId] ELSE Null
            /\ pc' = "done"
       ELSE /\ pc' = "getProfile_catch"
            /\ UNCHANGED result
    /\ UNCHANGED <<profile, textVars, visualVars, pageVars, modelVars, simplifyVars,
                   genVars, stageVars, storeVars, batchVars>>

\* Lines 25-31: the catch block.
GetProfileCatch ==
    /\ pc = "getProfile_catch"
    /\ result' = getMockProfile(userId)
    /\ pc' = "done"
    /\ UNCHANGED <<profile, textVars, visualVars, pageVars, modelVars, simplifyVars,
                   genVars, stageVars, storeVars, batchVars>>

\* createProfile, lines 41-58: the item is put under the condition
\* attribute_not_exists(userId).  The store keeps the table as it is and
\* answers ConditionalCheckFailedException when it holds an item with the
\* key; a send that fails otherwise leaves the table alone as well.
CreateProfileSend ==
    /\ pc = "createProfile"
    /\ LET item == [createdAt |-> Timestamp, updatedAt |-> Timestamp]
                       @@ profile @@ [userId |-> userId]
       IN IF storeOutcome = "resolves" /\ userId \notin DOMAIN table
          THEN /\ table' = (userId :> item) @@ table
               /\ result' = item
               /\ pc' = "respond"
          ELSE /\ result' = IF storeOutcome = "resolves"
                            THEN Thrown("ConditionalCheckFailedException")
                            ELSE Thrown("ServiceUnavailable")
               /\ pc' = "createProfile_catch"
               /\ UNCHANGED table
    /\ UNCHANGED <<profile, userId, storeOutcome, requests, textVars, visualVars,
                   pageVars, modelVars, simplifyVars, genVars, stageVars, batchVars>>

\* createProfile, lines 59-76: the catch block throws for the failed
\* condition and returns a simulated item for every other error.
CreateProfileCatch ==
    /\ pc = "createProfile_catch"
    /\ result' = IF result = Thrown("ConditionalCheckFailedException")
                 THEN Thrown("Profile already exists for this user")
                 ELSE [createdAt |-> Timestamp, updatedAt |-> Timestamp,
                       mockData |-> TRUE] @@ profile @@ [userId |-> userId]
    /\ pc' = "respond"
    /\ UNCHANGED <<profile, textVars, visualVars, pageVars, modelVars, simplifyVars,
                   genVars, stageVars, storeVars, batchVars>>

\* updateProfile, lines 83-102: SET #profile = :profile, #updatedAt =
\* :updatedAt on the item with the key, which the store creates when there
\* is none; ReturnValues ALL_NEW gives the item as it is afterwards.
UpdateProfileSend ==
    /\ pc = "updateProfile"
    /\ IF storeOutcome = "resolves"
       THEN LET old == IF userId \in DOMAIN table
                       THEN table[userId] ELSE [userId |-> userId]
                new == [profile |-> profile, updatedAt |-> Timestamp] @@ old
            IN /\ table' = (userId :> new) @@ table
               /\ result' = new
               /\ pc' = "respond"
       ELSE /\ result' = Thrown("ServiceUnavailable")
            /\ pc' = "updateProfile_catch"
            /\ UNCHANGED table
    /\ UNCHANGED <<profile, userId, storeOutcome, requests, textVars, visualVars,
                   pageVars, modelVars, simplifyVars, genVars, stageVars, batchVars>>

\* updateProfile, lines 103-114: the catch block returns a simulated item.
UpdateProfileCatch ==
    /\ pc = "updateProfile_catch"
    /\ result' = [updatedAt |-> Timestamp, mockData |-> TRUE]
                     @@ profile @@ [userId |-> userId]
    /\ pc' = "respond"
    /\ UNCHANGED <<profile, textVars, visualVars, pageVars, modelVars, simplifyVars,
                   genVars, stageVars, storeVars, batchVars>>

\* What the handler answers once the service has returned or thrown:
\* profileController.js lines 77-104, 138-155 and 245-281, part_003 lines
\* 51-73 and 121-138.
Respond ==
    /\ pc = "respond"
    /\ http' =
          IF IsThrown(result)
          THEN IF result # Thrown("Profile already exists for this user")
               THEN [status |-> 500]
               ELSE IF entry = "generateProfile"
               THEN [status |-> 409, existingProfile |-> getProfile(userId)]
               ELSE [status |-> 409]
          ELSE IF entry \in {"createProfile", "generateProfile"}
          THEN [status |-> 201, profile |-> result]
          ELSE IF entry = "updateProfile"
          THEN [status |-> 200, profile |-> result]
          ELSE [status |-> 200, success |-> TRUE, result |-> result]
    /\ pc' = "done"
    /\ UNCHANGED <<profile, result, entry, moduleScope, textVars, visualVars, pageVars,
                   modelVars, genVars, stageVars, storeVars, batchVars>>

NextStore ==
    \/ Receive
    \/ Validate
    \/ Generate
    \/ GetProfileSend
    \/ GetProfileCatch
    \/ CreateProfileSend
    \/ CreateProfileCatch
    \/ UpdateProfileSend
    \/ UpdateProfileCatch
    \/ Respond
    \/ TtVocabulary
    \/ TtChunking
    \/ TtAnalogies
    \/ TtReturn

SpecStore == InitStore /\ [][NextStore]_vars

----------------------------------------------------------------------------
(* ClaudeSimplificationService.simplifyTextBatch: part_000 lines 179-236    *)

\* The most segments one batch request holds.
MaxSegments == 5

\* Line 187.
batchSize == 3

\* Lines 188-192: the number of groups the segments are sliced into.
BatchCount == (Len(textSegments) + batchSize - 1) \div batchSize

\* A loop that hands every segment from group k on to map at once.
BatchOfRest(k) ==
    {i \in 1..Len(textSegments) : (i - 1) \div batchSize >= k - 1}

\* The indexes of the segments of group k, textSegments.slice(i, i + 3).
BatchOf(k) ==
    {i \in 1..Len(textSegments) : (i - 1) \div batchSize = k - 1}

\* Promise.all of line 203 is fulfilled when every promise of the group is.
AllFulfilled(group) == \A i \in group : calls[i].state = "fulfilled"

\* A request of n segments with texts that differ; for every segment
\* bedrockClient.send answers or fails.
InitBatch ==
    /\ pc = "batch_map"
    /\ \E n \in 0..MaxSegments :
          \E send \in [1..n -> {"resolves", "rejects"}] :
              textSegments = [i \in 1..n |->
                                 [text |-> [j \in 1..(i + 1) |->
                                               IF j > i THEN "." ELSE "a"],
                                  send |-> send[i]]]
    /\ calls = [i \in 1..Len(textSegments) |-> [state |-> "idle", value |-> NoResult]]
    /\ batch = 1
    /\ results = <<>>
    /\ profile = [simplification |-> [useAnalogies |-> FALSE]]
    /\ moduleScope \in {"esm", "cjs"}
    /\ modelText = <<"O", "k", ".">>
    /\ result = NoResult
    /\ IdleExcept({"batch", "simplify", "model"})
    /\ entry = "simplifyTextBatch" /\ http = NoResult /\ sendOutcome = "none"

\* Lines 194-201: batch.map calls simplifyText for every segment of the
\* group, and every call runs up to its await of bedrockClient.send.  With
\* no group left the loop is over.
BatchMap ==
    /\ pc = "batch_map"
    /\ IF batch > BatchCount
       THEN pc' = "batch_return" /\ UNCHANGED calls
       ELSE /\ calls' = [i \in 1..Len(calls) |->
                            IF i \in BatchOf(batch)
                            THEN [state |-> "inflight", value |-> NoResult]
                            ELSE calls[i]]
            /\ pc' = "batch_await"
    /\ UNCHANGED <<profile, result, textSegments, batch, results, textVars, visualVars,
                   pageVars, modelVars, simplifyVars, genVars, stageVars, storeVars>>

\* One call of simplifyText comes to its end (lines 39-74), whatever the
\* batch is doing: with the answer of the model it is fulfilled with the
\* result of the try block, without it with what the fallback returns, and
\* it is rejected with what the fallback throws.
SimplifyTextSettles ==
    /\ \E i \in 1..Len(calls) :
          /\ calls[i].state = "inflight"
          /\ LET value == IF textSegments[i].send = "resolves"
                          THEN ModelResult("simplifyText", textSegments[i].text,
                                           modelText)
                          ELSE fallbackSimplification(textSegments[i].text, profile,
                                                      moduleScope)
             IN calls' = [calls EXCEPT ![i] =
                             [state |-> IF IsThrown(value) THEN "rejected"
                                        ELSE "fulfilled",
                              value |-> value]]
    /\ UNCHANGED <<pc, profile, result, textSegments, batch, results, textVars,
                   visualVars, pageVars, modelVars, simplifyVars, genVars, stageVars,
                   storeVars>>

\* Lines 203-204: await Promise.all(batchPromises) goes on with the values
\* in the order of the group once all calls are fulfilled, and throws as
\* soon as one call is rejected; the catch block of lines 227-234 then
\* returns the error with the results of the groups before.
BatchAwait ==
    /\ pc = "batch_await"
    /\ IF \E i \in BatchOf(batch) : calls[i].state = "rejected"
       THEN /\ result' = [status |-> "error",
                          error |-> "require is not defined",
                          partialResults |-> results]
            /\ pc' = "done"
            /\ UNCHANGED results
       ELSE /\ AllFulfilled(BatchOf(batch))
            /\ results' = results \o
                   [k \in 1..Cardinality(BatchOf(batch)) |->
                       calls[(batch - 1) * batchSize + k].value]
            /\ pc' = IF batch < BatchCount THEN "batch_delay" ELSE "batch_return"
            /\ UNCHANGED result
    /\ UNCHANGED <<profile, textSegments, calls, batch, textVars, visualVars, pageVars,
                   modelVars, simplifyVars, genVars, stageVars, storeVars>>

\* Lines 206-209: the delay between two groups is over.
BatchDelay ==
    /\ pc = "batch_delay"
    /\ batch' = batch + 1
    /\ pc' = "batch_map"
    /\ UNCHANGED <<profile, result, textSegments, calls, results, textVars, visualVars,
                   pageVars, modelVars, simplifyVars, genVars, stageVars, storeVars>>

\* Lines 212-225.
BatchReturn ==
    /\ pc = "batch_return"
    /\ result' =
          [status |-> "success",
           results |-> results,
           batchMetadata |->
               [totalSegments |-> Len(textSegments),
                successfulTransformations |->
                    Cardinality({i \in 1..Len(results) :
                                    results[i].status = "success"}),
                failedTransformations |->
                    Cardinality({i \in 1..Len(results) :
                                    results[i].status = "error"})]]
    /\ pc' = "done"
    /\ UNCHANGED <<profile, textSegments, calls, batch, results, textVars, visualVars,
                   pageVars, modelVars, simplifyVars, genVars, stageVars, storeVars>>

NextBatch ==
    \/ BatchMap
    \/ SimplifyTextSettles
    \/ BatchAwait
    \/ BatchDelay
    \/ BatchReturn

SpecBatch == InitBatch /\ [][NextBatch]_vars

----------------------------------------------------------------------------
(* Claims about analyzeVisuals, checked under SpecVisuals *)

\* The call has returned from a profile whose distraction filter is present.
FilterPresent ==
    Has(profile, "visuals") /\ Has(profile.visuals, "distractionFilter")

FilterEnabled == FilterPresent /\ profile.visuals.distractionFilter.enabled

FilterDisabled == FilterPresent /\ ~ profile.visuals.distractionFilter.enabled

ProfileSensitivity == profile.visuals.distractionFilter.sensitivity

\* The call returned one action per element, the i-th for the i-th element.
ActionsAligned ==
    /\ IsTagged(result)
    /\ Len(result.visualActions) = Len(elements)
    /\ \A i \in 1..Len(elements) : result.visualActions[i].id = elements[i].id

ActionOf(i) == result.visualActions[i].action

\* C1: with the filter enabled, for every sensitivity and position an element
\* whose semantic_context is main_article_figure or educational_content gets
\* keep_visible, never hide and never a fade.
C1_HardOverride ==
    (pc = "done" /\ FilterEnabled) =>
        /\ ActionsAligned
        /\ \A i \in 1..Len(elements) :
              elements[i].semantic_context \in EssentialContexts =>
                  /\ ActionOf(i) = "keep_visible"
                  /\ ActionOf(i) \notin FadeActions \cup {"hide"}

\* An essential element in the sidebar, kept under high sensitivity, next to
\* an element that high sensitivity fades or hides.
C1_Witness ==
    /\ pc = "done" /\ FilterEnabled /\ ProfileSensitivity = "high"
    /\ IsTagged(result)
    /\ \E i, j \in 1..Len(elements) :
          /\ elements[i].semantic_context = "educational_content"
          /\ PositionOf(elements[i]) = "sidebar"
          /\ ActionOf(i) = "keep_visible"
          /\ ActionOf(j) # "keep_visible"

\* C2: with distractionFilter.enabled false every element gets keep_visible,
\* whatever its context, its position and the sensitivity, and no returned
\* action carries a reasoning field.
C2_FilterDisabled ==
    (pc = "done" /\ FilterDisabled) =>
        /\ ActionsAligned
        /\ \A i \in 1..Len(elements) :
              /\ ActionOf(i) = "keep_visible"
              /\ ~ Has(result.visualActions[i], "reasoning")

\* A disabled filter with high sensitivity met a sidebar advertisement.
C2_Witness ==
    /\ pc = "done" /\ FilterDisabled /\ ProfileSensitivity = "high"
    /\ IsTagged(result)
    /\ \E i \in 1..Len(elements) :
          /\ elements[i].semantic_context = "sidebar_advertisement"
          /\ PositionOf(elements[i]) = "sidebar"
          /\ ActionOf(i) = "keep_visible"

\* C3: with the filter enabled, an advertisement or newsletter element is
\* hidden at high sensitivity and faded to 30 percent at low or medium,
\* whatever its position and type.
C3_Advertisements ==
    (pc = "done" /\ FilterEnabled) =>
        /\ ActionsAligned
        /\ \A i \in 1..Len(elements) :
              elements[i].semantic_context \in AdvertisementContexts =>
                  /\ ProfileSensitivity = "high" => ActionOf(i) = "hide"
                  /\ ProfileSensitivity \in {"low", "medium"} =>
                        ActionOf(i) = "fade_to_30_percent_opacity"

\* The same request shape gave hide to an advertisement outside the sidebar.
C3_Witness ==
    /\ pc = "done" /\ FilterEnabled /\ ProfileSensitivity = "high"
    /\ IsTagged(result)
    /\ \E i \in 1..Len(elements) :
          /\ elements[i].semantic_context = "newsletter_signup"
          /\ PositionOf(elements[i]) = "main"
          /\ elements[i].type = "image"
          /\ ActionOf(i) = "hide"

\* C4: with the filter enabled, decorative_stock_photo is faded to 20 percent
\* at high, to 50 percent at medium and kept at low; a context outside the
\* named ones is faded to 40 percent exactly when sensitivity is high and the
\* position is sidebar, and kept otherwise.
C4_RemainingRows ==
    (pc = "done" /\ FilterEnabled) =>
        /\ ActionsAligned
        /\ \A i \in 1..Len(elements) :
              LET ctx == elements[i].semantic_context
              IN /\ ctx = "decorative_stock_photo" =>
                        ActionOf(i) =
                            CASE ProfileSensitivity = "high" -> "fade_to_20_percent_opacity"
                              [] ProfileSensitivity = "medium" -> "fade_to_50_percent_opacity"
                              [] ProfileSensitivity = "low" -> "keep_visible"
                 /\ ctx \notin AdvertisementContexts \cup EssentialContexts
                                \cup {"decorative_stock_photo"} =>
                        /\ ActionOf(i) \in {"fade_to_40_percent_opacity", "keep_visible"}
                        /\ ActionOf(i) = "fade_to_40_percent_opacity" <=>
                              (ProfileSensitivity = "high"
                                 /\ PositionOf(elements[i]) = "sidebar")

\* An unnamed context in the sidebar was kept at medium sensitivity while a
\* decorative photo beside it was faded to 50 percent.
C4_Witness ==
    /\ pc = "done" /\ FilterEnabled /\ ProfileSensitivity = "medium"
    /\ IsTagged(result)
    /\ \E i, j \in 1..Len(elements) :
          /\ elements[i].semantic_context = "sidebar_content"
          /\ PositionOf(elements[i]) = "sidebar"
          /\ ActionOf(i) = "keep_visible"
          /\ elements[j].semantic_context = "decorative_stock_photo"
          /\ ActionOf(j) = "fade_to_50_percent_opacity"

\* The other half of that row: high sensitivity fades the sidebar element.
C4_WitnessHigh ==
    /\ pc = "done" /\ FilterEnabled /\ ProfileSensitivity = "high"
    /\ IsTagged(result)
    /\ \E i \in 1..Len(elements) :
          /\ elements[i].semantic_context = "general_image"
          /\ PositionOf(elements[i]) = "sidebar"
          /\ ActionOf(i) = "fade_to_40_percent_opacity"

----------------------------------------------------------------------------
(* Claims about transformText and transformPage, checked under SpecTransform *)

\* The gates as the profile states them, for a profile that has the sections.
GateVocabulary == profile.text.vocabulary.simplificationLevel # "none"

GateChunking == profile.text.chunking.strategy = "sentence_limit"

GateAnalogies == profile.simplification.useAnalogies

\* A profile with every field transformText reads, maxLength at least 1.
CompleteTextProfile ==
    /\ CanReadVocabulary(profile) /\ CanReadChunking(profile)
    /\ CanReadSimplification(profile)
    /\ GateChunking =>
          (Has(profile.text.chunking, "maxLength")
              /\ profile.text.chunking.maxLength >= 1)

\* What each stage makes of its input (the content so far and the log so
\* far) when its gate is on; the input itself when the gate is off.
AfterVocabulary(in) ==
    IF GateVocabulary
    THEN LET r == simplifyVocabulary(in.content, profile.text.vocabulary.simplificationLevel)
         IN [content |-> r.content, log |-> in.log \o r.replacements]
    ELSE in

AfterChunking(in) ==
    IF GateChunking
    THEN LET r == chunkParagraphs(in.content, profile.text.chunking.maxLength)
         IN [content |-> r.content,
             log |-> Append(in.log, [entry |-> "chunked", chunksCreated |-> r.chunksCreated])]
    ELSE in

AfterAnalogies(in) ==
    IF GateAnalogies
    THEN LET r == addAnalogies(in.content)
         IN [content |-> r.content, log |-> in.log \o r.analogies]
    ELSE in

\* C5: transformText applies vocabulary simplification, then chunking, then
\* analogy annotation, skipping each stage whose gate is off; the log holds
\* the entries of the stages that ran, in that order; with all three gates
\* off the content comes back unchanged with an empty log.
C5_StageOrder ==
    (CompleteTextProfile /\ pc \in {"chunking", "analogies", "return", "done", "page_assign"}) =>
        LET start == [content |-> content, log |-> <<>>]
            one   == AfterVocabulary(start)
            two   == AfterChunking(one)
            three == AfterAnalogies(two)
            now   == [content |-> transformedContent, log |-> transformationLog]
        IN /\ pc = "chunking" => now = one
           /\ pc = "analogies" => now = two
           /\ pc = "return" => now = three
           /\ ((pc = "done" /\ caller = "none") \/ pc = "page_assign") =>
                 /\ result.status = "success"
                 /\ result.transformedContent = three.content
                 /\ result.metadata.transformations = three.log
                 /\ (~ GateVocabulary /\ ~ GateChunking /\ ~ GateAnalogies) =>
                       /\ result.transformedContent = content
                       /\ result.metadata.transformations = <<>>

\* All three stages ran and each left its trace: a replacement entry, then
\* the chunked entry of a paragraph that was split, then an analogy entry.
C5_Witness ==
    /\ pc = "done" /\ caller = "none" /\ CompleteTextProfile
    /\ GateVocabulary /\ GateChunking /\ GateAnalogies
    /\ result.status = "success"
    /\ LET log == result.metadata.transformations
       IN \E i, j, k \in 1..Len(log) :
            /\ i < j /\ j < k
            /\ log[i].entry = "replacement"
            /\ log[j].entry = "chunked" /\ log[j].chunksCreated = 1
            /\ log[k].entry = "analogy"

\* All three gates off on a content the stages would have changed.
C5_WitnessAllOff ==
    /\ pc = "done" /\ caller = "none" /\ CompleteTextProfile
    /\ ~ GateVocabulary /\ ~ GateChunking /\ ~ GateAnalogies
    /\ result.transformedContent = content
    /\ addAnalogies(content).content # content

\* The content the call in progress was given and what its error result
\* holds: transformedContent for transformText, transformedHtml for
\* transformPage.
IsTextError ==
    /\ IsTagged(result) /\ result.status = "error"
    /\ Has(result, "transformedContent")

IsPageError ==
    /\ IsTagged(result) /\ result.status = "error"
    /\ Has(result, "transformedHtml")

\* transformText has returned, to its caller or to transformPage.
TextCallReturned == (pc = "done" /\ caller = "none") \/ pc = "page_assign"

PageCallReturned == pc = "done" /\ caller = "transformPage"

\* The profile has every section a stage of transformText reads.
CanReadTextProfile ==
    /\ CanReadVocabulary(profile) /\ CanReadChunking(profile)
    /\ CanReadSimplification(profile)

\* The profile has every section transformPage reads after the text nodes.
CanReadWholeProfile ==
    /\ Has(profile, "visuals") /\ Has(profile.visuals, "distractionFilter")
    /\ CanReadPageProfile(profile)

\* C6: when a stage of transformText or of transformPage throws, the result
\* is tagged error and carries the original input, whatever the earlier
\* stages made of the working content.
C6_ErrorReturnsOriginal ==
    /\ (TextCallReturned /\ ~ CanReadTextProfile) => IsTextError
    /\ (PageCallReturned /\ ~ CanReadWholeProfile) => IsPageError
    /\ IsTextError => result.transformedContent = content
    /\ IsPageError => result.transformedHtml = htmlContent

\* transformText failed at a later stage after the vocabulary stage had
\* rewritten the working content.
C6_Witness ==
    /\ pc = "done" /\ caller = "none" /\ IsTextError
    /\ transformedContent # content
    /\ transformationLog # <<>>

\* transformPage failed after text nodes had been rewritten.
C6_WitnessPage ==
    /\ pc = "done" /\ caller = "transformPage" /\ IsPageError
    /\ textTransformations > 0
    /\ BodyHTML(document) # htmlContent


----------------------------------------------------------------------------
(* Claims about the entry points as a whole *)

\* C7: every transformation entry point returns a result tagged success or
\* error, also for a profile that lacks the fields it reads; here for
\* analyzeVisuals, under SpecVisuals.
C7_TaggedResult == pc = "done" => IsTagged(result)

----------------------------------------------------------------------------
(* Claims about simplifyText and simplifyEssay, checked under SpecSimplify *)

\* C8: when the model call fails, the call ends with the success result of
\* the local fallback and the request is answered 200, not 500.
C8_FallbackOnModelFailure ==
    (pc = "done" /\ sendOutcome # "resolves" /\ http.status # 400) =>
        /\ IsTagged(result)
        /\ result.status = "success"
        /\ result.metadata.model = "local-fallback"
        /\ http.status = 200

----------------------------------------------------------------------------
(* Claims about generateCognitiveProfile, checked under SpecGenerate *)

\* The model call failed: send rejected, the body was not JSON, or the text
\* of the model is not a JSON object.
GenerationFailed ==
    \/ sendOutcome # "resolves"
    \/ IsThrown(JSONparse(modelText))
    \/ JSONparse(modelText).kind # "object"

\* C9: when the model call fails in any of these ways, the call returns the
\* profile generateMockProfile computes from the same answers, marked
\* intelligent-mock-fallback.
C9_MockOnGenerationFailure ==
    (pc = "done" /\ GenerationFailed) =>
        /\ result = generateMockProfile(answers)
        /\ result.metadata.generatedBy = "intelligent-mock-fallback"

\* C10: the profile generateMockProfile returns is accepted by
\* cognitiveProfileSchema, for every answers map.
C10_MockProfileSchemaValid ==
    (pc = "done" /\ result = generateMockProfile(answers)) => cognitiveProfileSchema(result)



\* C11: the distraction rule of the mock profile has two tiers: a
\* q2_distractions answer that holds 'very distracted' or 'completely derail'
\* (in any letter case) enables the filter at high, also though it holds
\* 'distract'; one that holds only 'distract' enables it at medium; any other
\* answer, or none, leaves it disabled at medium.
C11_TwoTierDistraction ==
    (pc = "done" /\ result = generateMockProfile(answers)) =>
        LET q2 == IF Has(answers, "q2_distractions")
                  THEN toLowerCase(answers.q2_distractions) ELSE <<>>
            strong == \/ includes(q2, <<"v","e","r","y"," ","d","i","s","t","r","a","c","t","e","d">>)
                      \/ includes(q2, <<"c","o","m","p","l","e","t","e","l","y"," ","d","e","r","a","i","l">>)
            weak == includes(q2, <<"d","i","s","t","r","a","c","t">>)
            filter == result.visuals.distractionFilter
        IN /\ strong => filter = [enabled |-> TRUE, sensitivity |-> "high"]
           /\ (~ strong /\ weak) => filter = [enabled |-> TRUE, sensitivity |-> "medium"]
           /\ (~ strong /\ ~ weak) => filter = [enabled |-> FALSE, sensitivity |-> "medium"]

\* The mock profile of an answer that holds 'Very distracted' is at high.
C11_Witness ==
    /\ pc = "done"
    /\ result = generateMockProfile(answers)
    /\ Has(answers, "q2_distractions")
    /\ includes(answers.q2_distractions, <<"V","e","r","y"," ","d","i","s","t","r","a","c","t","e","d">>)
    /\ result.visuals.distractionFilter = [enabled |-> TRUE, sensitivity |-> "high"]

----------------------------------------------------------------------------
(* Claims about the text stages, checked under SpecStages *)

\* The sentences of the paragraph the loop of chunkParagraphs is working on.
SentencesInHand ==
    splitIntoSentences(textContent(paragraphs[paragraphIndex].inner))

\* C12: chunkParagraphs terminates for every maxSentences: its loop never
\* makes more chunks than the paragraph has sentences, and a call with
\* maxSentences <= 0 returns what maxSentences = 1 returns or throws
\* InvalidConfiguration.
C12_ChunkingTerminates ==
    /\ (stage = "chunkParagraphs" /\ pc = "chunk_for") =>
            Len(chunks) <= Len(SentencesInHand)
    /\ (stage = "chunkParagraphs" /\ pc = "done" /\ maxSentencesArg <= 0) =>
            \/ result = chunkParagraphs(content, 1)
            \/ result = Thrown("InvalidConfiguration")

\* A call of chunkParagraphs with maxSentences >= 1 has returned.
ChunkingReturned ==
    stage = "chunkParagraphs" /\ pc = "done" /\ maxSentencesArg >= 1

\* The sentences of a paragraph element, as splitIntoSentences counts them.
SentencesOf(node) == splitIntoSentences(textContent(node.inner))

\* The p elements of a piece of HTML, in document order.
ParagraphsOf(html) == SelectSeq(ParseBody(html, 1), LAMBDA node : node.tag = "p")

\* The sentences of the paragraphs from the k-th on, in order.
RECURSIVE AllSentences(_, _)
AllSentences(nodes, k) ==
    IF k > Len(nodes) THEN <<>>
    ELSE SentencesOf(nodes[k]) \o AllSentences(nodes, k + 1)

\* ceil(n / limit)
GroupCount(n, limit) == (n + limit - 1) \div limit

\* The sentence counts the paragraphs from the k-th on are to have after
\* chunking: a paragraph over the limit gives ceil(n / limit) counts, all
\* equal to the limit but the last, which holds the rest.
RECURSIVE ExpectedSizes(_, _, _)
ExpectedSizes(nodes, k, limit) ==
    IF k > Len(nodes) THEN <<>>
    ELSE LET n == Len(SentencesOf(nodes[k]))
         IN (IF n > limit
             THEN [j \in 1..GroupCount(n, limit) |->
                      IF j * limit <= n THEN limit ELSE n - (j - 1) * limit]
             ELSE <<n>>)
            \o ExpectedSizes(nodes, k + 1, limit)

\* C13: for maxSentences >= 1 chunkParagraphs keeps the sentences and their
\* order, and a paragraph of n > maxSentences sentences becomes
\* ceil(n / maxSentences) consecutive paragraphs that hold maxSentences
\* sentences each, the last one the rest.
C13_ChunkingConservation ==
    ChunkingReturned =>
        LET before == ParagraphsOf(content)
            after  == ParagraphsOf(result.content)
        IN /\ AllSentences(after, 1) = AllSentences(before, 1)
           /\ [k \in 1..Len(after) |-> Len(SentencesOf(after[k]))]
                 = ExpectedSizes(before, 1, maxSentencesArg)

\* A paragraph of three sentences was chunked with maxSentences 2 into
\* paragraphs of two sentences and one.
C13_Witness ==
    /\ ChunkingReturned
    /\ maxSentencesArg = 2
    /\ Len(ParagraphsOf(content)) = 1
    /\ Len(SentencesOf(ParagraphsOf(content)[1])) = 3
    /\ LET after == ParagraphsOf(result.content)
       IN /\ Len(after) = 2
          /\ Len(SentencesOf(after[1])) = 2
          /\ Len(SentencesOf(after[2])) = 1

\* The paragraph element over the limit: the test the claims put on a
\* paragraph of the content.
OverLimit(node) == node.tag = "p" /\ Len(SentencesOf(node)) > maxSentencesArg

\* The place in the chunked document of the k-th child of the body: a split
\* paragraph stands as its chunks with a line break between each two.
RECURSIVE PlaceAfterChunking(_, _)
PlaceAfterChunking(nodes, k) ==
    IF k = 1 THEN 1
    ELSE PlaceAfterChunking(nodes, k - 1)
            + (IF OverLimit(nodes[k - 1])
               THEN 2 * GroupCount(Len(SentencesOf(nodes[k - 1])), maxSentencesArg) - 1
               ELSE 1)

\* C14: chunkParagraphs leaves every paragraph at or under maxSentences as
\* it was, and chunksCreated is the number of paragraphs over maxSentences.
C14_ChunkingNoOp ==
    ChunkingReturned =>
        LET before == ParseBody(content, 1)
            after  == ParseBody(result.content, 1)
        IN /\ result.chunksCreated =
                 Cardinality({k \in DOMAIN before : OverLimit(before[k])})
           /\ \A k \in DOMAIN before :
                 ~ OverLimit(before[k]) =>
                     LET place == PlaceAfterChunking(before, k)
                     IN /\ place <= Len(after)
                        /\ OuterHTML(after[place]) = OuterHTML(before[k])

\* Of two paragraphs, the one over the limit was split into more than two
\* chunks and the other is there as it was: one paragraph, one count.
C14_Witness ==
    /\ ChunkingReturned
    /\ result.chunksCreated = 1
    /\ LET before == ParseBody(content, 1)
       IN /\ Len(before) = 2
          /\ \E k \in DOMAIN before :
                /\ OverLimit(before[k])
                /\ GroupCount(Len(SentencesOf(before[k])), maxSentencesArg) > 2
          /\ \E k \in DOMAIN before :
                before[k].tag = "p" /\ ~ OverLimit(before[k])
    /\ result.content # content

\* simplifyVocabulary has returned from a call with a level that has a table.
VocabularyReturned ==
    stage = "simplifyVocabulary" /\ pc = "done" /\ levelArg \in {"basic", "intermediate"}

\* word stands in s at index i as a whole word, in any letter case: the
\* characters next to it, if any, are no letters, digits or underscores.
WholeWordAt(s, i, word) ==
    /\ i + Len(word) - 1 <= Len(s)
    /\ toLowerCase(SubSeq(s, i, i + Len(word) - 1)) = toLowerCase(word)
    /\ i > 1 => ~ IsWordChar(s[i - 1])
    /\ i + Len(word) <= Len(s) => ~ IsWordChar(s[i + Len(word)])

WholeWordCount(s, word) == Cardinality({i \in 1..Len(s) : WholeWordAt(s, i, word)})

\* How often pat stands in s from index i on, letter for letter (pat does
\* not overlap itself).
RECURSIVE CountFrom(_, _, _)
CountFrom(s, i, pat) ==
    LET at == IndexOfFrom(s, i, pat)
    IN IF at > Len(s) THEN 0 ELSE 1 + CountFrom(s, at + Len(pat), pat)

\* s from index i on with every pat taken out.
RECURSIVE RemoveFrom(_, _, _)
RemoveFrom(s, i, pat) ==
    LET at == IndexOfFrom(s, i, pat)
    IN IF at > Len(s) THEN SubSeq(s, i, Len(s))
       ELSE SubSeq(s, i, at - 1) \o RemoveFrom(s, at + Len(pat), pat)

\* s with the replacement markup of the table rows from the n-th on taken out.
RECURSIVE WithoutMarkup(_, _, _)
WithoutMarkup(s, mappings, n) ==
    IF n > Len(mappings) THEN s
    ELSE WithoutMarkup(RemoveFrom(s, 1, SimplifiedMarkup(mappings[n].complex,
                                                        mappings[n].simple)),
                       mappings, n + 1)

\* C15: simplifyVocabulary replaces a table word exactly where it stands as
\* a whole word, in any letter case: each whole-word occurrence becomes the
\* markup of its entry, the entry is logged exactly when there is one, no
\* whole-word occurrence is left over, and a text in which table words stand
\* only inside longer words comes back unchanged with an empty log.
C15_WholeWordsOnly ==
    VocabularyReturned =>
        LET mappings == vocabularyMappings(levelArg)
            found(n) == WholeWordCount(content, mappings[n].complex)
            rest == WithoutMarkup(result.content, mappings, 1)
            logged(n) ==
                \E k \in DOMAIN result.replacements :
                    result.replacements[k] =
                        [entry |-> "replacement", complex |-> mappings[n].complex,
                         simple |-> mappings[n].simple]
        IN /\ \A n \in DOMAIN mappings :
                /\ CountFrom(result.content, 1,
                             SimplifiedMarkup(mappings[n].complex, mappings[n].simple))
                      = found(n)
                /\ logged(n) <=> found(n) > 0
                /\ WholeWordCount(rest, mappings[n].complex) = 0
           /\ (\A n \in DOMAIN mappings : found(n) = 0) =>
                /\ result.content = content
                /\ result.replacements = <<>>

\* A text with the word in three letter cases came back with three markups.
C15_Witness ==
    /\ VocabularyReturned
    /\ WholeWordCount(content, <<"u","b","i","q","u","i","t","o","u","s">>) = 3
    /\ content # toLowerCase(content)
    /\ Len(result.replacements) = 1
    /\ CountFrom(result.content, 1, <<"<","/","s","p","a","n",">">>) = 3

\* A text with the word inside a longer word came back as it was.
C15_WitnessInsideWord ==
    /\ VocabularyReturned
    /\ content = <<"u","b","i","q","u","i","t","o","u","s","l","y">>
    /\ result = [content |-> content, replacements |-> <<>>]

\* C16: with level none, or a level that has no substitution table
\* (advanced, a name that is no level), simplifyVocabulary returns the
\* content unchanged and an empty replacement list, and throws nothing.
C16_NoTableNoChange ==
    (stage = "simplifyVocabulary" /\ pc = "done"
        /\ levelArg \notin {"basic", "intermediate"}) =>
            result = [content |-> content, replacements |-> <<>>]

\* A text holding a table word came back unchanged from level advanced.
C16_Witness ==
    /\ stage = "simplifyVocabulary" /\ pc = "done"
    /\ levelArg = "advanced"
    /\ WholeWordCount(content, <<"u","b","i","q","u","i","t","o","u","s">>) > 0
    /\ result = [content |-> content, replacements |-> <<>>]

\* The table rows from the k-th on, then the rows before it.
RotatedMappings(mappings, k) ==
    SubSeq(mappings, k, Len(mappings)) \o SubSeq(mappings, 1, k - 1)

ReversedMappings(mappings) ==
    [n \in 1..Len(mappings) |-> mappings[Len(mappings) + 1 - n]]

\* C17: substitution does not cascade in the basic and the intermediate
\* table: the markup a row writes holds no word another row replaces, so it
\* stands in the result once per replaced word, and running the rows in
\* another order (from any row on, or backwards) gives the same content and
\* the same log entries.
C17_NoCascading ==
    VocabularyReturned =>
        LET mappings == vocabularyMappings(levelArg)
            markup(n) == SimplifiedMarkup(mappings[n].complex, mappings[n].simple)
            start == [content |-> content, replacements |-> <<>>]
            entries(r) == {r.replacements[k] : k \in DOMAIN r.replacements}
            same(r) == r.content = result.content /\ entries(r) = entries(result)
        IN /\ \A n \in DOMAIN mappings :
                WholeWordCount(content, mappings[n].complex) > 0 =>
                    /\ \A m \in DOMAIN mappings \ {n} :
                          ~ RegexTest(markup(n), mappings[m].complex)
                    /\ CountFrom(result.content, 1, markup(n))
                          = WholeWordCount(content, mappings[n].complex)
           /\ \A k \in DOMAIN mappings :
                same(SimplifyFrom(RotatedMappings(mappings, k), 1, start))
           /\ same(SimplifyFrom(ReversedMappings(mappings), 1, start))

\* A text in which several rows of the table replaced a word.
C17_Witness ==
    /\ VocabularyReturned
    /\ Len(result.replacements) > 2
    /\ result.content # content

\* addAnalogies has returned.
AnalogiesReturned == stage = "addAnalogies" /\ pc = "done"

\* The marker line 562 writes after the concept of the n-th row of analogyMap.
AnalogyMarker(n) ==
    LET markup == AnalogyMarkup(analogyMap[n].concept, analogyMap[n].analogy)
    IN SubSeq(markup, Len(analogyMap[n].concept) + 1, Len(markup))

\* s with the markers of the table rows from the n-th on taken out.
RECURSIVE WithoutMarkers(_, _)
WithoutMarkers(s, n) ==
    IF n > Len(analogyMap) THEN s
    ELSE WithoutMarkers(RemoveFrom(s, 1, AnalogyMarker(n)), n + 1)

\* C18: a concept that occurs in the content, however often, gets the
\* analogy marker once, right after its first occurrence, and one log entry.
C18_FirstOccurrenceOnly ==
    AnalogiesReturned =>
        \A n \in DOMAIN analogyMap :
            LET concept == analogyMap[n].concept
                first == CHOOSE i \in 1..Len(content) :
                            /\ WholeWordAt(content, i, concept)
                            /\ \A j \in 1..(i - 1) : ~ WholeWordAt(content, j, concept)
                at == IndexOfFrom(result.content, 1, AnalogyMarker(n))
            IN WholeWordCount(content, concept) >= 1 =>
                /\ CountFrom(result.content, 1, AnalogyMarker(n)) = 1
                /\ Len(WithoutMarkers(SubSeq(result.content, 1, at - 1), 1))
                      = first + Len(concept) - 1
                /\ Cardinality({k \in DOMAIN result.analogies :
                                   result.analogies[k] = [entry |-> "analogy", concept |-> concept]}) = 1

\* C19: addAnalogies only adds markers: the returned content with the
\* markers taken out is the content that was passed in, whatever letter
\* case the concept is written in.
C19_MarkersOnly ==
    AnalogiesReturned => WithoutMarkers(result.content, 1) = content

----------------------------------------------------------------------------
(* Claims about the profile store, checked under SpecStore *)

\* C20: getProfile returns the stored item of the user id it was asked for,
\* or not-found (null); never a profile of, or labelled with, another user
\* id, and never one the table does not hold.
C20_NotFoundNeverFaked ==
    (pc = "done" /\ entry = "getProfile") =>
        \/ result = Null
        \/ /\ userId \in DOMAIN table
           /\ result = table[userId]
           /\ result.userId = userId

\* The characters of a text that are no white space: trimming a sentence and
\* joining sentences and chunks change white space only.
Visible(text) == SelectSeq(text, LAMBDA c : c \notin {" ", "\n"})

\* C24: chunkParagraphs never drops text: the chunks of a paragraph that is
\* split hold the whole text of the paragraph, in order: text before the
\* first and after the last terminator too.
C24_NoTextDropped ==
    ChunkingReturned =>
        \A k \in DOMAIN paragraphs :
            IsSplit(paragraphs[k], maxSentencesArg) =>
                Visible(textContent(paragraphs[k].html))
                    = Visible(textContent(paragraphs[k].inner))

----------------------------------------------------------------------------
(* The shape of the result of analyzeVisuals, checked under SpecVisuals *)

\* C29: with the filter enabled analyzeVisuals returns one action per input
\* element, in input order and with the element's id, each with a reasoning
\* string, and the counts of its metadata partition the result: actionsHide +
\* actionsFade + actionsKeep = elementsProcessed = the number of elements.
C29_ActionsPartition ==
    (pc = "done" /\ FilterEnabled) =>
        /\ ActionsAligned
        /\ \A i \in 1..Len(elements) :
              /\ Has(result.visualActions[i], "reasoning")
              /\ result.visualActions[i].reasoning =
                    getActionReasoning(elements[i], ActionOf(i), ProfileSensitivity)
              /\ Len(result.visualActions[i].reasoning) > 0
        /\ result.metadata.elementsProcessed = Len(elements)
        /\ result.metadata.actionsHide + result.metadata.actionsFade
              + result.metadata.actionsKeep = result.metadata.elementsProcessed
        /\ result.metadata.actionsHide =
              Cardinality({i \in 1..Len(elements) : ActionOf(i) = "hide"})
        /\ result.metadata.actionsKeep =
              Cardinality({i \in 1..Len(elements) : ActionOf(i) = "keep_visible"})

\* Two elements, one hidden and one faded: the three counts are 1, 1 and 0.
C29_Witness ==
    /\ pc = "done" /\ FilterEnabled
    /\ IsTagged(result)
    /\ Len(elements) = 2
    /\ ActionOf(1) = "hide"
    /\ ActionOf(2) \in FadeActions
    /\ result.metadata.actionsHide = 1
    /\ result.metadata.actionsFade = 1
    /\ result.metadata.actionsKeep = 0
    /\ result.metadata.elementsProcessed = 2

----------------------------------------------------------------------------
(* The text stages together, checked under SpecTransform *)

\* The concepts of the analogy entries of a transformation log.
AnnotatedConcepts(log) ==
    {log[i].concept : i \in {j \in 1..Len(log) : log[j].entry = "analogy"}}

\* C25: the text stages do not interfere: with useAnalogies on and
\* vocabulary level basic or intermediate, transformText annotates a concept
\* exactly when it annotates it with vocabulary level none, the rest of the
\* profile and the content being the same.
C25_StagesIndependent ==
    (/\ pc = "done" /\ caller = "none"
     /\ CompleteTextProfile /\ GateAnalogies
     /\ profile.text.vocabulary.simplificationLevel \in {"basic", "intermediate"}) =>
        LET levelNone == AfterAnalogies(AfterChunking([content |-> content, log |-> <<>>]))
        IN /\ result.status = "success"
           /\ AnnotatedConcepts(result.metadata.transformations)
                 = AnnotatedConcepts(levelNone.log)

----------------------------------------------------------------------------
(* The visual half of transformPage, checked under SpecPage *)

\* The images, iframes and asides of a piece of HTML in the order
\* extractVisualElements lists them.
VisualTags(html) ==
    TagsFrom(html, 1, <<"i","m","g">>)
        \o TagsFrom(html, 1, <<"i","f","r","a","m","e">>)
        \o TagsFrom(html, 1, <<"a","s","i","d","e">>)

\* The actions analyzeVisuals computed for the elements of the page.
ComputedActions == analyzeVisuals(elements, profile).visualActions

\* C26: transformPage applies every computed visual action to the element
\* it was computed for: in the returned HTML an extracted img, iframe or
\* aside whose action is hide has display none, and one whose action is
\* fade_to_N_percent_opacity has opacity N/100.
C26_ActionsApplied ==
    (PageCallReturned /\ result.status = "success") =>
        LET tags == VisualTags(result.transformedHtml)
        IN /\ Len(tags) = Len(elements)
           /\ \A k \in 1..Len(elements) :
                 LET style == StyleOf(ComputedActions[k].action)
                 IN style # <<>> => includes(tags[k].tag, style)

\* C27: in the page pipeline every image inside an article element is
\* classified main_article_figure and gets keep_visible, for every
\* sensitivity and whatever its src, alt text and class name.
C27_ArticleImagesKept ==
    (PageCallReturned /\ result.status = "success") =>
        LET imgs == TagsFrom(htmlContent, 1, <<"i","m","g">>)
        IN \A k \in 1..Len(imgs) :
              "article" \in imgs[k].ancestors =>
                  /\ elements[k].semantic_context = "main_article_figure"
                  /\ ComputedActions[k].action = "keep_visible"

(***************************************************************************)
(* Sequences of requests of one user against the profile store             *)
(***************************************************************************)

\* C21: createProfile never overwrites a stored profile.  When the table
\* holds an item for the user, a create leaves the table as it is and
\* raises an error, the catch block turns it into the already-exists error,
\* and the profile and onboarding endpoints answer it with 409.
C21_CreateNeverOverwrites ==
    [][/\ (pc = "createProfile" /\ userId \in DOMAIN table) =>
              (table' = table /\ IsThrown(result'))
       /\ (pc = "createProfile_catch" /\ userId \in DOMAIN table) =>
              result' = Thrown("Profile already exists for this user")
       /\ (pc = "respond" /\ entry \in {"createProfile", "generateProfile"}
               /\ userId \in DOMAIN table /\ result # table[userId]) =>
              http'.status = 409]_vars

\* C28: once an item that createProfile stored has been updated, getProfile
\* returns the text, simplification and visuals settings of the update.
C28_UpdateThenGet ==
    (/\ pc = "done" /\ entry = "getProfile" /\ storeOutcome = "resolves"
     /\ userId \in DOMAIN table
     /\ {"text", "simplification", "visuals", "profile"} \subseteq DOMAIN table[userId]) =>
        /\ result.text = table[userId].profile.text
        /\ result.simplification = table[userId].profile.simplification
        /\ result.visuals = table[userId].profile.visuals

\* C23: a transform request whose body has no profile is served with the
\* stored profile of the user, and is answered 404 only when the store has
\* none.
C23_StoredProfileServes ==
    [][(pc = "validate" /\ entry \in {"transformText", "analyzeVisuals"}
            /\ profile = Null) =>
          IF getProfile(userId) = Null
          THEN http'.status = 404
          ELSE /\ profile' = getProfile(userId)
               /\ pc' \in {"vocabulary", "respond"}]_vars

(***************************************************************************)
(* simplifyTextBatch, checked under SpecBatch                              *)
(***************************************************************************)

\* C22: simplifyTextBatch bounds its concurrency.  At every moment at most
\* 3 calls of simplifyText are in flight, and a call of a later group of
\* three has only started when every call of the groups before has
\* completed.
C22_BoundedConcurrency ==
    /\ Cardinality({i \in 1..Len(calls) : calls[i].state = "inflight"}) <= 3
    /\ \A i, j \in 1..Len(calls) :
          ((i - 1) \div 3 < (j - 1) \div 3 /\ calls[j].state # "idle") =>
              calls[i].state \in {"fulfilled", "rejected"}

\* The two calls of the second group are in flight after the three of the
\* first group.
C22_Witness ==
    /\ Len(calls) >= 5
    /\ \A i \in 1..3 : calls[i].state = "fulfilled"
    /\ calls[4].state = "inflight" /\ calls[5].state = "inflight"

\* C30: simplifyTextBatch accounts for every segment.  The batch returns
\* success with one result per segment in the order of the segments, the
\* two counters add up to the number of segments, and a segment whose call
\* failed is counted in failedTransformations.
C30_EverySegmentAccounted ==
    pc = "done" =>
        /\ result.status = "success"
        /\ Len(result.results) = Len(textSegments)
        /\ \A i \in 1..Len(textSegments) :
              result.results[i].originalText = textSegments[i].text
        /\ result.batchMetadata.successfulTransformations
              + result.batchMetadata.failedTransformations = Len(textSegments)
        /\ result.batchMetadata.failedTransformations
              = Cardinality({i \in 1..Len(calls) : calls[i].state = "rejected"})

============================================================================
